---- MODULE Spec2Model ----
(***************************************************************************)
(* reconnx: the per-host latency state machine (machine.go) and the httpx  *)
(* event handler that drives it (handler.go).                              *)
(*                                                                         *)
(* Numbers.  Samples, thresholds and window sums are float64 in the code:  *)
(* binary floating point, every +, -, * and / rounded to the nearest value *)
(* with a 53-bit significand, ties to even.  The model keeps that          *)
(* arithmetic with a significand of Precision bits: a number is the exact  *)
(* fraction num/den (den a power of two), samples and thresholds are       *)
(* integers, and every operation of the code rounds its result (Round).    *)
(* A number that needs more than Precision bits plays the part that 0.1 or *)
(* 0.7 plays with 53 bits.  Fractions are compared by cross-multiplication.*)
(***************************************************************************)
EXTENDS Integers, Sequences, FiniteSets, TLC

(***************************************************************************)
(* Bounds of the model.                                                    *)
(***************************************************************************)
\* Samples range over MinValue..MaxValue.
MaxValue == 3
\* ClosingStreak, ClosingCount and RestingCount of the machine on its own
\* range over Counts; the handler's range over 0..MaxCount.
MaxCount == 2
Counts == {0, 1, MaxCount}
\* Window sizes tried, as <<HistoricalSamples, RecentSamples>>.
SampleSizes == {<<1, 1>>, <<1, 2>>, <<2, 1>>}
\* Thresholds tried, as <<AbsThreshold, PctThreshold>> (zero and negative
\* disable a threshold).
Thresholds == {<<-1, -50>>, <<2, 0>>, <<0, 50>>, <<2, 50>>}
Values == 1..MaxValue
\* The handler: host names, elapsed times (ms), attempts per execution and
\* threshold pairs <<AbsThreshold, PctThreshold>>.
Hosts == {"", "foo.com"}
Durations == {1, MaxValue}
MaxAttempts == 2
HandlerThresholds == {<<0, 0>>, <<-1, -50>>, <<2, 0>>}

\* A window on its own: capacities 0..MaxLen and at most MaxPushes pushes.
MaxLen == 3
MaxPushes == 4

(***************************************************************************)
(* machine.go: constants and State.                                        *)
(***************************************************************************)
DefaultHistoricalSamples == 10
DefaultRecentSamples == 3
badWindowSizeMsg == "reconnx: window size must be positive"
unknownStateMsg == "reconnx: unknown state"

Watching == 0
Closing == 1
Resting == 2
States == {Watching, Closing, Resting}

\* math.Min on the values of the model.
Min(a, b) == IF a <= b THEN a ELSE b

(***************************************************************************)
(* float64.                                                                *)
(***************************************************************************)
\* Bits of the significand (53 in the code).
Precision == 8
TwoP == 2 ^ Precision

Frac(n) == [num |-> n, den |-> 1]

\* The integer nearest to a/b, ties to even (a >= 0, b > 0).
RoundHalfEven(a, b) ==
    IF 2 * (a % b) > b \/ (2 * (a % b) = b /\ (a \div b) % 2 = 1)
    THEN (a \div b) + 1
    ELSE a \div b

\* x/2 and 2x for a fraction in lowest terms.
Half(x) ==
    IF x.num % 2 = 0 THEN [num |-> x.num \div 2, den |-> x.den]
                     ELSE [num |-> x.num, den |-> 2 * x.den]
Twice(x) ==
    IF x.den > 1 THEN [num |-> x.num, den |-> x.den \div 2]
                 ELSE [num |-> 2 * x.num, den |-> 1]

\* a/b (a, b > 0) rounded to Precision significant bits: scaled by a power
\* of two into 2^(Precision-1) .. 2^Precision, rounded there, scaled back.
RECURSIVE RoundPos(_, _)
RoundPos(a, b) ==
    IF a >= b * TwoP THEN Twice(RoundPos(a, 2 * b))
    ELSE IF 2 * a < b * TwoP THEN Half(RoundPos(2 * a, b))
    ELSE [num |-> RoundHalfEven(a, b), den |-> 1]

\* A fraction that is a float64 as it stands: a multiple of 1/4 with fewer
\* than Precision bits.
Exact(x) ==
    /\ (4 * x.num) % x.den = 0
    /\ -TwoP < (4 * x.num) \div x.den
    /\ (4 * x.num) \div x.den < TwoP

\* The float64 nearest to the fraction x (x.den > 0).
Round(x) ==
    IF Exact(x) THEN [num |-> (4 * x.num) \div x.den, den |-> 4]
    ELSE IF x.num = 0 THEN Frac(0)
    ELSE IF x.num > 0 THEN RoundPos(x.num, x.den)
    ELSE [RoundPos(-x.num, x.den) EXCEPT !.num = -@]

\* The float64 nearest to the integer n, itself an integer.
RoundInt(n) == IF -TwoP < n /\ n < TwoP THEN n ELSE Round(Frac(n)).num

(***************************************************************************)
(* avgWindow.                                                              *)
(***************************************************************************)
\* sum := 0.0; for i < n { sum += def }
RECURSIVE SumLoop(_, _)
SumLoop(n, def) == IF n = 0 THEN 0 ELSE RoundInt(SumLoop(n - 1, def) + def)

\* panics (field panic) when n < 1; otherwise n slots holding def.
newAvgWindow(n, def) ==
    IF n < 1
    THEN [values |-> <<>>, sum |-> 0, index |-> 0, panic |-> badWindowSizeMsg]
    ELSE [values |-> [i \in 1..n |-> def], sum |-> SumLoop(n, def),
          index |-> 0, panic |-> ""]

\* aw.sum / float64(len(aw.values)): the quotient, rounded.
Avg(aw) == Round([num |-> aw.sum, den |-> Len(aw.values)])

\* x >= y for fractions with positive denominators.
FracGeq(x, y) == x.num * y.den >= y.num * x.den

\* The exact product of two fractions, and the float64 product x * y.
FracMul(x, y) == [num |-> x.num * y.num, den |-> x.den * y.den]
FMul(x, y) == Round(FracMul(x, y))

\* (100.0 + pct) / 100.0
PctFactor(pct) == Round([num |-> RoundInt(100 + pct), den |-> 100])

\* Push that never advances the cursor.
Push_StuckCursor(aw, value) ==
    LET dropped == aw.values[aw.index + 1]
    IN  [aw |-> [aw EXCEPT !.values = [@ EXCEPT ![aw.index + 1] = value],
                           !.sum = RoundInt(RoundInt(@ - dropped) + value)],
         dropped |-> dropped]

\* Push: the slice index is 0-based in the code, the sequence 1-based here.
Push(aw, value) ==
    LET dropped == aw.values[aw.index + 1]
        index1 == aw.index + 1
    IN  [aw |-> [aw EXCEPT !.values = [@ EXCEPT ![aw.index + 1] = value],
                           !.sum = RoundInt(RoundInt(@ - dropped) + value),
                           !.index = IF index1 >= Len(aw.values) THEN 0 ELSE index1],
         dropped |-> dropped]

(***************************************************************************)
(* MachineConfig and machine.                                              *)
(***************************************************************************)
\* valOrDef that returns val even when it is zero.
valOrDef_NoDefault(val, def) == val

valOrDef(val, def) == IF val > 0 THEN val ELSE def

\* NewMachine with the state field starting at Closing instead of the zero value.
NewMachine_StartsClosing(config) ==
    LET historicalLen == valOrDef(config.HistoricalSamples, DefaultHistoricalSamples)
        recentLen == valOrDef(config.RecentSamples, DefaultRecentSamples)
    IN  [state |-> Closing,
         historical |-> newAvgWindow(historicalLen, config.AbsThreshold),
         recent |-> newAvgWindow(recentLen, config.AbsThreshold),
         closedStreak |-> 0,
         closedCount |-> 0,
         restCount |-> 0,
         config |-> config,
         trail |-> <<>>]

\* NewMachine that seeds both windows with 0 instead of AbsThreshold.
NewMachine_ZeroSeed(config) ==
    LET historicalLen == valOrDef(config.HistoricalSamples, DefaultHistoricalSamples)
        recentLen == valOrDef(config.RecentSamples, DefaultRecentSamples)
    IN  [state |-> Watching,
         historical |-> newAvgWindow(historicalLen, 0),
         recent |-> newAvgWindow(recentLen, 0),
         closedStreak |-> 0,
         closedCount |-> 0,
         restCount |-> 0,
         config |-> config,
         trail |-> <<>>]

\* The field trail is not in the code: it records, for the most recent Next
\* call, each value assigned to m.state during that call, in order.
NewMachine(config) ==
    LET historicalLen == valOrDef(config.HistoricalSamples, DefaultHistoricalSamples)
        recentLen == valOrDef(config.RecentSamples, DefaultRecentSamples)
    IN  [state |-> Watching,
         historical |-> newAvgWindow(historicalLen, config.AbsThreshold),
         recent |-> newAvgWindow(recentLen, config.AbsThreshold),
         closedStreak |-> 0,
         closedCount |-> 0,
         restCount |-> 0,
         config |-> config,
         trail |-> <<>>]

\* m.state = s
setState(m, s) == [m EXCEPT !.state = s, !.trail = Append(@, s)]

\* State(): reads m.state under the read lock.
machine_State(m) == m.state

\* shift without the clamp to AbsThreshold.
shift_NoClamp(m, value) ==
    LET r == Push(m.recent, value)
        h == Push(m.historical, r.dropped)
    IN  [m EXCEPT !.recent = r.aw, !.historical = h.aw]

shift(m, value) ==
    LET v == IF m.config.AbsThreshold > 0 THEN Min(value, m.config.AbsThreshold) ELSE value
        r == Push(m.recent, v)
        h == Push(m.historical, r.dropped)
    IN  [m EXCEPT !.recent = r.aw, !.historical = h.aw]

\* closing that leaves only when a counter exceeds its limit (> for >=).
closing_Strict(m, closed) ==
    LET m1 == IF closed
              THEN [m EXCEPT !.closedCount = @ + 1, !.closedStreak = @ + 1]
              ELSE [m EXCEPT !.closedStreak = 0]
    IN  IF m1.closedStreak > m1.config.ClosingStreak \/ m1.closedCount > m1.config.ClosingCount
        THEN LET m2 == [m1 EXCEPT !.closedCount = 0, !.closedStreak = 0]
             IN  IF m2.config.RestingCount > 0
                 THEN setState(m2, Resting)
                 ELSE setState(m2, Watching)
        ELSE m1

\* closing that always rests on leaving, whatever RestingCount is.
closing_AlwaysRests(m, closed) ==
    LET m1 == IF closed
              THEN [m EXCEPT !.closedCount = @ + 1, !.closedStreak = @ + 1]
              ELSE [m EXCEPT !.closedStreak = 0]
    IN  IF m1.closedStreak >= m1.config.ClosingStreak \/ m1.closedCount >= m1.config.ClosingCount
        THEN setState([m1 EXCEPT !.closedCount = 0, !.closedStreak = 0], Resting)
        ELSE m1

\* closing that leaves only when both limits are reached (&& for ||).
closing_BothLimits(m, closed) ==
    LET m1 == IF closed
              THEN [m EXCEPT !.closedCount = @ + 1, !.closedStreak = @ + 1]
              ELSE [m EXCEPT !.closedStreak = 0]
    IN  IF m1.closedStreak >= m1.config.ClosingStreak /\ m1.closedCount >= m1.config.ClosingCount
        THEN LET m2 == [m1 EXCEPT !.closedCount = 0, !.closedStreak = 0]
             IN  IF m2.config.RestingCount > 0
                 THEN setState(m2, Resting)
                 ELSE setState(m2, Watching)
        ELSE m1

\* closing that leaves the counters as they are on the way out.
closing_NoReset(m, closed) ==
    LET m1 == IF closed
              THEN [m EXCEPT !.closedCount = @ + 1, !.closedStreak = @ + 1]
              ELSE [m EXCEPT !.closedStreak = 0]
    IN  IF m1.closedStreak >= m1.config.ClosingStreak \/ m1.closedCount >= m1.config.ClosingCount
        THEN IF m1.config.RestingCount > 0
             THEN setState(m1, Resting)
             ELSE setState(m1, Watching)
        ELSE m1

\* closing that leaves on the streak alone.
closing_StreakOnly(m, closed) ==
    LET m1 == IF closed
              THEN [m EXCEPT !.closedCount = @ + 1, !.closedStreak = @ + 1]
              ELSE [m EXCEPT !.closedStreak = 0]
    IN  IF m1.closedStreak >= m1.config.ClosingStreak
        THEN LET m2 == [m1 EXCEPT !.closedCount = 0, !.closedStreak = 0]
             IN  IF m2.config.RestingCount > 0
                 THEN setState(m2, Resting)
                 ELSE setState(m2, Watching)
        ELSE m1

\* closing that keeps the streak over a connection left open.
closing_NoStreakReset(m, closed) ==
    LET m1 == IF closed
              THEN [m EXCEPT !.closedCount = @ + 1, !.closedStreak = @ + 1]
              ELSE m
    IN  IF m1.closedStreak >= m1.config.ClosingStreak \/ m1.closedCount >= m1.config.ClosingCount
        THEN LET m2 == [m1 EXCEPT !.closedCount = 0, !.closedStreak = 0]
             IN  IF m2.config.RestingCount > 0
                 THEN setState(m2, Resting)
                 ELSE setState(m2, Watching)
        ELSE m1

\* closing that leaves Closing for a state past Resting.
closing_BadState(m, closed) ==
    LET m1 == IF closed
              THEN [m EXCEPT !.closedCount = @ + 1, !.closedStreak = @ + 1]
              ELSE [m EXCEPT !.closedStreak = 0]
    IN  IF m1.closedStreak >= m1.config.ClosingStreak \/ m1.closedCount >= m1.config.ClosingCount
        THEN LET m2 == [m1 EXCEPT !.closedCount = 0, !.closedStreak = 0]
             IN  IF m2.config.RestingCount > 0
                 THEN setState(m2, Resting + 1)
                 ELSE setState(m2, Watching)
        ELSE m1

closing(m, closed) ==
    LET m1 == IF closed
              THEN [m EXCEPT !.closedCount = @ + 1, !.closedStreak = @ + 1]
              ELSE [m EXCEPT !.closedStreak = 0]
    IN  IF m1.closedStreak >= m1.config.ClosingStreak \/ m1.closedCount >= m1.config.ClosingCount
        THEN LET m2 == [m1 EXCEPT !.closedCount = 0, !.closedStreak = 0]
             IN  IF m2.config.RestingCount > 0
                 THEN setState(m2, Resting)
                 ELSE setState(m2, Watching)
        ELSE m1

\* watching that hands closing a closed flag of true on entering Closing.
watching_ClosedTrue(m) ==
    LET recentAvg == Avg(m.recent)
        m1 == IF m.config.AbsThreshold > 0 /\ FracGeq(recentAvg, Frac(m.config.AbsThreshold))
              THEN setState(m, Closing)
              ELSE IF m.config.PctThreshold > 0
                      /\ FracGeq(recentAvg,
                                 FMul(Avg(m.historical), PctFactor(m.config.PctThreshold)))
                   THEN setState(m, Closing)
                   ELSE m
    IN  IF m1.state = Closing THEN closing(m1, TRUE) ELSE m1

\* watching that takes a zero threshold as enabled (>= 0 for > 0).
watching_ZeroEnables(m) ==
    LET recentAvg == Avg(m.recent)
        m1 == IF m.config.AbsThreshold >= 0 /\ FracGeq(recentAvg, Frac(m.config.AbsThreshold))
              THEN setState(m, Closing)
              ELSE IF m.config.PctThreshold >= 0
                      /\ FracGeq(recentAvg,
                                 FMul(Avg(m.historical), PctFactor(m.config.PctThreshold)))
                   THEN setState(m, Closing)
                   ELSE m
    IN  IF m1.state = Closing THEN closing(m1, FALSE) ELSE m1

\* watching whose percent test is strict (> for >=).
watching_StrictPct(m) ==
    LET recentAvg == Avg(m.recent)
        m1 == IF m.config.AbsThreshold > 0 /\ FracGeq(recentAvg, Frac(m.config.AbsThreshold))
              THEN setState(m, Closing)
              ELSE IF m.config.PctThreshold > 0
                      /\ ~FracGeq(FMul(Avg(m.historical), PctFactor(m.config.PctThreshold)),
                                  recentAvg)
                   THEN setState(m, Closing)
                   ELSE m
    IN  IF m1.state = Closing THEN closing(m1, FALSE) ELSE m1

\* watching that leaves the closing logic to the next call.
watching_NoCascade(m) ==
    LET recentAvg == Avg(m.recent)
        m1 == IF m.config.AbsThreshold > 0 /\ FracGeq(recentAvg, Frac(m.config.AbsThreshold))
              THEN setState(m, Closing)
              ELSE IF m.config.PctThreshold > 0
                      /\ FracGeq(recentAvg,
                                 FMul(Avg(m.historical), PctFactor(m.config.PctThreshold)))
                   THEN setState(m, Closing)
                   ELSE m
    IN  m1

watching(m) ==
    LET recentAvg == Avg(m.recent)
        m1 == IF m.config.AbsThreshold > 0 /\ FracGeq(recentAvg, Frac(m.config.AbsThreshold))
              THEN setState(m, Closing)
              ELSE IF m.config.PctThreshold > 0
                      /\ FracGeq(recentAvg,
                                 FMul(Avg(m.historical), PctFactor(m.config.PctThreshold)))
                   THEN setState(m, Closing)
                   ELSE m
    IN  IF m1.state = Closing THEN closing(m1, FALSE) ELSE m1

\* resting that ends the rest one call late (> for >=).
resting_Late(m) ==
    LET m1 == [m EXCEPT !.restCount = @ + 1]
    IN  IF m1.restCount > m1.config.RestingCount
        THEN watching(setState([m1 EXCEPT !.restCount = 0], Watching))
        ELSE m1

\* resting that leaves for Watching without running watching in the same call.
resting_NoCascade(m) ==
    LET m1 == [m EXCEPT !.restCount = @ + 1]
    IN  IF m1.restCount >= m1.config.RestingCount
        THEN setState([m1 EXCEPT !.restCount = 0], Watching)
        ELSE m1

resting(m) ==
    LET m1 == [m EXCEPT !.restCount = @ + 1]
    IN  IF m1.restCount >= m1.config.RestingCount
        THEN watching(setState([m1 EXCEPT !.restCount = 0], Watching))
        ELSE m1

\* Next that reads prev after the dispatch instead of at entry.
machine_Next_PrevAfter(m, value, closed) ==
    LET m1 == shift([m EXCEPT !.trail = <<>>], value)
        m2 == CASE m.state = Watching -> watching(m1)
                [] m.state = Closing  -> closing(m1, closed)
                [] m.state = Resting  -> resting(m1)
                [] OTHER              -> m1
    IN  [m |-> m2, next |-> m2.state, prev |-> m2.state, panic |-> ""]

\* Next(value, closed) (next, prev), the whole call under m.lock.
\* Next that shifts the windows only when it finds the machine in Watching.
machine_Next_ShiftWhenWatching(m, value, closed) ==
    LET prev == m.state
        m0 == [m EXCEPT !.trail = <<>>]
        m1 == IF prev = Watching THEN shift(m0, value) ELSE m0
    IN  CASE prev = Watching -> LET m2 == watching(m1)
                                IN  [m |-> m2, next |-> m2.state, prev |-> prev, panic |-> ""]
          [] prev = Closing  -> LET m2 == closing(m1, closed)
                                IN  [m |-> m2, next |-> m2.state, prev |-> prev, panic |-> ""]
          [] prev = Resting  -> LET m2 == resting(m1)
                                IN  [m |-> m2, next |-> m2.state, prev |-> prev, panic |-> ""]
          [] OTHER           -> [m |-> m1, next |-> m1.state, prev |-> prev,
                                 panic |-> unknownStateMsg]

machine_Next(m, value, closed) ==
    LET prev == m.state
        m1 == shift([m EXCEPT !.trail = <<>>], value)
    IN  CASE prev = Watching -> LET m2 == watching(m1)
                                IN  [m |-> m2, next |-> m2.state, prev |-> prev, panic |-> ""]
          [] prev = Closing  -> LET m2 == closing(m1, closed)
                                IN  [m |-> m2, next |-> m2.state, prev |-> prev, panic |-> ""]
          [] prev = Resting  -> LET m2 == resting(m1)
                                IN  [m |-> m2, next |-> m2.state, prev |-> prev, panic |-> ""]
          [] OTHER           -> [m |-> m1, next |-> m1.state, prev |-> prev,
                                 panic |-> unknownStateMsg]

(***************************************************************************)
(* handler.go: the httpx event handler and its host registry.              *)
(*                                                                         *)
(* A handler is [Config |-> [Latency |-> MachineConfig], hostLatency |-> a  *)
(* function from the host names registered so far to their machines].      *)
(* An execution is the part of request.Execution the handler reads:        *)
(*   Plan     [nil, Host]          the plan and its host name              *)
(*   Request  [nil, Close]         the current attempt's request           *)
(*   Attempt  the 0-based attempt index                                    *)
(*   es       [nil, attemptStart]  the value under executionStateKey; of   *)
(*            the recorded start times only their number is kept, the      *)
(*            elapsed time being drawn when the attempt ends.              *)
(***************************************************************************)
NilPlan == [nil |-> TRUE, Host |-> ""]
NilRequest == [nil |-> TRUE, Close |-> FALSE]
NilState == [nil |-> TRUE, attemptStart |-> 0]

beforeExecutionStart(e) == [e EXCEPT !.es = [nil |-> FALSE, attemptStart |-> 0]]

\* getExecutionHost without the nil test: the zero host name with ok = true.
getExecutionHost_NoNilTest(e) == [host |-> e.Plan.Host, ok |-> TRUE]

\* (p.Host, true), or ("", false) for a nil plan.
getExecutionHost(e) ==
    IF e.Plan.nil THEN [host |-> "", ok |-> FALSE] ELSE [host |-> e.Plan.Host, ok |-> TRUE]

\* h.hostLatency[host] under the read lock: nil when the host is not registered.
getHostLatencyStateMachine(h, host) ==
    IF host \in DOMAIN h.hostLatency
    THEN [nil |-> FALSE, sm |-> h.hostLatency[host]]
    ELSE [nil |-> TRUE, sm |-> NewMachine(h.Config.Latency)]

\* The registered machine, or a new one registered under the write lock.
getOrCreateHostLatencyStateMachine(h, host) ==
    IF host \in DOMAIN h.hostLatency
    THEN [h |-> h, sm |-> h.hostLatency[host]]
    ELSE LET sm == NewMachine(h.Config.Latency)
         IN  [h |-> [h EXCEPT !.hostLatency =
                        [x \in DOMAIN h.hostLatency \cup {host} |->
                            IF x = host THEN sm ELSE h.hostLatency[x]]],
              sm |-> sm]

\* beforeAttempt that fetches the machine before it makes its checks.
beforeAttempt_EagerCreate(h, e) ==
    LET quit == [h |-> h, e |-> e, started |-> FALSE, closeSet |-> FALSE]
        eh == getExecutionHost(e)
    IN  IF ~eh.ok THEN quit
        ELSE LET g0 == getOrCreateHostLatencyStateMachine(h, eh.host)
                 quit1 == [quit EXCEPT !.h = g0.h]
             IN  IF e.Request.nil THEN quit1
                 ELSE IF e.es.nil THEN quit1
                 ELSE IF e.es.attemptStart # e.Attempt THEN quit1
                 ELSE LET e1 == [e EXCEPT !.es.attemptStart = @ + 1]
                      IN  IF machine_State(g0.sm) = Closing
                          THEN [h |-> g0.h, e |-> [e1 EXCEPT !.Request.Close = TRUE],
                                started |-> TRUE, closeSet |-> TRUE]
                          ELSE [h |-> g0.h, e |-> e1, started |-> TRUE, closeSet |-> FALSE]

\* beforeAttempt that marks the request unless the machine is Watching.
beforeAttempt_CloseUnlessWatching(h, e) ==
    LET quit == [h |-> h, e |-> e, started |-> FALSE, closeSet |-> FALSE]
        eh == getExecutionHost(e)
    IN  IF ~eh.ok THEN quit
        ELSE IF e.Request.nil THEN quit
        ELSE IF e.es.nil THEN quit
        ELSE IF e.es.attemptStart # e.Attempt THEN quit
        ELSE LET e1 == [e EXCEPT !.es.attemptStart = @ + 1]
                 g0 == getOrCreateHostLatencyStateMachine(h, eh.host)
             IN  IF machine_State(g0.sm) # Watching
                 THEN [h |-> g0.h, e |-> [e1 EXCEPT !.Request.Close = TRUE],
                       started |-> TRUE, closeSet |-> TRUE]
                 ELSE [h |-> g0.h, e |-> e1, started |-> TRUE, closeSet |-> FALSE]

\* beforeAttempt that records the start time before it looks at the request.
beforeAttempt_RecordsFirst(h, e) ==
    LET quit == [h |-> h, e |-> e, started |-> FALSE, closeSet |-> FALSE]
        eh == getExecutionHost(e)
    IN  IF ~eh.ok THEN quit
        ELSE IF e.es.nil THEN quit
        ELSE IF e.es.attemptStart # e.Attempt THEN quit
        ELSE LET e1 == [e EXCEPT !.es.attemptStart = @ + 1]
             IN  IF e.Request.nil
                 THEN [h |-> h, e |-> e1, started |-> FALSE, closeSet |-> FALSE]
                 ELSE LET g == getOrCreateHostLatencyStateMachine(h, eh.host)
                      IN  IF machine_State(g.sm) = Closing
                          THEN [h |-> g.h, e |-> [e1 EXCEPT !.Request.Close = TRUE],
                                started |-> TRUE, closeSet |-> TRUE]
                          ELSE [h |-> g.h, e |-> e1, started |-> TRUE,
                                closeSet |-> FALSE]

\* The result also tells whether the start time was appended (started) and
\* whether r.Close = true was executed (closeSet).
beforeAttempt(h, e) ==
    LET quit == [h |-> h, e |-> e, started |-> FALSE, closeSet |-> FALSE]
        eh == getExecutionHost(e)
    IN  IF ~eh.ok THEN quit
        ELSE IF e.Request.nil THEN quit
        ELSE IF e.es.nil THEN quit
        ELSE IF e.es.attemptStart # e.Attempt THEN quit
        ELSE LET e1 == [e EXCEPT !.es.attemptStart = @ + 1]
                 g == getOrCreateHostLatencyStateMachine(h, eh.host)
             IN  IF machine_State(g.sm) = Closing
                 THEN [h |-> g.h, e |-> [e1 EXCEPT !.Request.Close = TRUE],
                       started |-> TRUE, closeSet |-> TRUE]
                 ELSE [h |-> g.h, e |-> e1, started |-> TRUE, closeSet |-> FALSE]

\* afterAttempt that always reports the connection as not closed.
afterAttempt_NeverClosed(h, e, d) ==
    LET quit == [h |-> h, e |-> e, fed |-> FALSE, panic |-> ""]
        eh == getExecutionHost(e)
    IN  IF ~eh.ok THEN quit
        ELSE IF e.es.nil THEN quit
        ELSE IF e.Attempt >= e.es.attemptStart THEN quit
        ELSE LET g == getHostLatencyStateMachine(h, eh.host)
             IN  IF g.nil THEN quit
                 ELSE LET r == machine_Next(g.sm, d, FALSE)
                      IN  [h |-> [h EXCEPT !.hostLatency[eh.host] = r.m], e |-> e,
                           fed |-> TRUE, panic |-> r.panic]

\* d is the elapsed time of the attempt in milliseconds.  The result also
\* tells whether Next was called (fed); reading e.Request.Close of a nil
\* request is a nil dereference (panic).
afterAttempt(h, e, d) ==
    LET quit == [h |-> h, e |-> e, fed |-> FALSE, panic |-> ""]
        eh == getExecutionHost(e)
    IN  IF ~eh.ok THEN quit
        ELSE IF e.es.nil THEN quit
        ELSE IF e.Attempt >= e.es.attemptStart THEN quit
        ELSE LET g == getHostLatencyStateMachine(h, eh.host)
             IN  IF g.nil THEN quit
                 ELSE IF e.Request.nil
                 THEN [h |-> h, e |-> e, fed |-> FALSE, panic |-> "nil pointer dereference"]
                 ELSE LET r == machine_Next(g.sm, d, e.Request.Close)
                      IN  [h |-> [h EXCEPT !.hostLatency[eh.host] = r.m], e |-> e,
                           fed |-> TRUE, panic |-> r.panic]

(***************************************************************************)
(* State.                                                                  *)
(***************************************************************************)
Configs ==
    { [HistoricalSamples |-> s[1], RecentSamples |-> s[2],
       AbsThreshold |-> t[1], PctThreshold |-> t[2],
       ClosingStreak |-> cs, ClosingCount |-> cc, RestingCount |-> rc] :
      s \in SampleSizes, t \in Thresholds,
      cs \in Counts, cc \in Counts, rc \in Counts }

\* The configurations a handler is installed with: one slot per window, and
\* the threshold pairs <<AbsThreshold, PctThreshold>> of HandlerThresholds.
HandlerConfigs ==
    { [HistoricalSamples |-> 1, RecentSamples |-> 1,
       AbsThreshold |-> t[1], PctThreshold |-> t[2],
       ClosingStreak |-> cs, ClosingCount |-> cc, RestingCount |-> rc] :
      t \in HandlerThresholds,
      cs \in 0..MaxCount, cc \in 0..MaxCount, rc \in 0..MaxCount }

\* m:      a machine driven directly through State() and Next().
\* ret:    what the most recent Next call on m was given and returned (called
\*         = FALSE before the first call; first = TRUE when it was the first),
\*         with the next returned by the call before it (expected; Watching
\*         for the first call) and the counters it found (entry).
\* h:      the handler installed by OnHandlers.
\* e:      the execution in progress, with the client's position in it:
\*         phase "idle" (none), "start" (created), "ready" (between attempts)
\*         or "attempt" (BeforeAttempt delivered, AfterAttempt to come);
\*         started and closeSet are what beforeAttempt did for the attempt.
\* marked: per host, the number of attempts in a row, up to now, for which
\*         beforeAttempt set Request.Close.
\*
\* Goroutines sharing machines and a handler (the concurrent specifications):
\* heap:   the machines allocated by NewMachine, a pointer being an index.
\* mlk:    the RWMutex of each machine of heap, as [w |-> writers holding it,
\*         r |-> readers holding it].
\* reg:    h.hostLatency as a map from the registered host names to pointers.
\* rlk:    h.hostLatencyLock.
\* g:      per goroutine, its position (pc) in the call it is making and the
\*         locals of that call.
\* lin:    not in the code: the machine (per pointer or per host) that results
\*         from running the Next calls made so far one at a time, in the
\*         order in which they took the machine's lock.
\* call:   not in the code: the most recent event delivered to the handler
\*         with a hand-made execution, with the handler as it was before.
\*
\* A window on its own, and a machine with the history of its samples:
\* w:      an avgWindow (aw) as newAvgWindow(n, def) made it, with, not in the
\*         code, the values pushed so far and the values Push returned.
\* tr:     not in the code: the number of Next calls made on m, up to the
\*         total length of its windows, the samples of the latest of them
\*         (last, as given) and the closed flags of the calls made since m
\*         entered Closing (flags).
VARIABLES m, ret, h, e, marked, heap, mlk, reg, rlk, g, lin, call, w, tr

seqVars == <<m, ret, h, e, marked>>
concVars == <<heap, mlk, reg, rlk, g, lin>>
auxVars == <<w, tr>>
vars == <<m, ret, h, e, marked, heap, mlk, reg, rlk, g, lin, call, w, tr>>

NoWindow == [n |-> 0, def |-> 0, aw |-> <<>>, pushed |-> <<>>, dropped |-> <<>>]
NoTrace == [n |-> 0, last |-> <<>>, flags |-> <<>>]

\* The window and the history while they are not in use.
AuxIdle ==
    /\ w = NoWindow
    /\ tr = NoTrace

\* A free RWMutex.
Unlocked == [w |-> 0, r |-> 0]

\* The variables of the concurrent specifications and of the event
\* specification while they are not in use.
ConcIdle ==
    /\ heap = <<>>
    /\ mlk = <<>>
    /\ reg = <<>>
    /\ rlk = Unlocked
    /\ g = <<>>
    /\ lin = <<>>

NoCall == [evt |-> "none"]

\* The counters a Next call found at its entry.
Counters(sm) ==
    [closedStreak |-> sm.closedStreak, closedCount |-> sm.closedCount,
     restCount |-> sm.restCount]

NoRet == [called |-> FALSE, first |-> FALSE, next |-> Watching, prev |-> Watching,
          value |-> 0, closed |-> FALSE, expected |-> Watching,
          entry |-> [closedStreak |-> 0, closedCount |-> 0, restCount |-> 0]]

IdleExecution ==
    [phase |-> "idle", Plan |-> NilPlan, Request |-> NilRequest, Attempt |-> 0,
     es |-> NilState, started |-> FALSE, closeSet |-> FALSE]

\* OnHandlers: an empty registry.
OnHandlers(config) == [Config |-> config, hostLatency |-> <<>>]

(***************************************************************************)
(* A machine driven directly through its exported interface.               *)
(***************************************************************************)
\* A caller reads State(); nothing is written.
CallState ==
    /\ machine_State(m) \in States
    /\ UNCHANGED vars

\* A caller feeds one data point.
CallNext ==
    \E value \in Values, closed \in BOOLEAN :
        LET r == machine_Next(m, value, closed)
        IN  /\ r.panic = ""
            /\ m' = r.m
            /\ ret' = [called |-> TRUE, first |-> ~ret.called, next |-> r.next,
                       prev |-> r.prev, value |-> value, closed |-> closed,
                       expected |-> IF ret.called THEN ret.next ELSE Watching,
                       entry |-> Counters(m)]
            /\ UNCHANGED <<h, e, marked, call>>
            /\ UNCHANGED concVars
            /\ UNCHANGED auxVars

Init ==
    /\ \E config \in Configs : m = NewMachine(config)
    /\ ret = NoRet
    /\ h = OnHandlers([Latency |-> CHOOSE c \in HandlerConfigs : TRUE])
    /\ e = IdleExecution
    /\ marked = [x \in Hosts |-> 0]
    /\ ConcIdle
    /\ call = NoCall
    /\ AuxIdle

Next == CallState \/ CallNext

Spec == Init /\ [][Next]_vars

(***************************************************************************)
(* A client running executions one at a time through the handler.          *)
(***************************************************************************)
Plans == {NilPlan} \cup { [nil |-> FALSE, Host |-> x] : x \in Hosts }
Requests == {NilRequest} \cup { [nil |-> FALSE, Close |-> b] : b \in BOOLEAN }

\* The client creates an execution for a plan.
NewExecution ==
    /\ e.phase = "idle"
    /\ \E p \in Plans : e' = [IdleExecution EXCEPT !.phase = "start", !.Plan = p]
    /\ UNCHANGED <<m, ret, h, marked, call>>
    /\ UNCHANGED concVars
    /\ UNCHANGED auxVars

\* Handle(BeforeExecutionStart, e)
HandleBeforeExecutionStart ==
    /\ e.phase = "start"
    /\ e' = [beforeExecutionStart(e) EXCEPT !.phase = "ready"]
    /\ UNCHANGED <<m, ret, h, marked, call>>
    /\ UNCHANGED concVars
    /\ UNCHANGED auxVars

\* Handle(BeforeAttempt, e), the client having made the attempt's request.
\* From phase "start" the BeforeExecutionStart event was not delivered.
HandleBeforeAttempt ==
    /\ e.phase \in {"start", "ready"}
    /\ \E req \in Requests :
        LET r == beforeAttempt(h, [e EXCEPT !.Request = req])
        IN  /\ h' = r.h
            /\ e' = [r.e EXCEPT !.phase = "attempt", !.started = r.started,
                                !.closeSet = r.closeSet]
            /\ marked' = IF r.started
                         THEN [marked EXCEPT ![e.Plan.Host] =
                                  IF r.closeSet THEN Min(@ + 1, MaxCount + 1) ELSE 0]
                         ELSE marked
    /\ UNCHANGED <<m, ret, call>>
    /\ UNCHANGED concVars
    /\ UNCHANGED auxVars

\* Handle(AfterAttempt, e); the client then retries or ends the execution.
HandleAfterAttempt ==
    /\ e.phase = "attempt"
    /\ \E d \in Durations :
        LET r == afterAttempt(h, e, d)
        IN  /\ r.panic = ""
            /\ h' = r.h
            /\ \/ /\ e.Attempt + 1 < MaxAttempts
                  /\ e' = [r.e EXCEPT !.phase = "ready", !.Attempt = @ + 1,
                                      !.Request = NilRequest, !.started = FALSE,
                                      !.closeSet = FALSE]
               \/ e' = IdleExecution
    /\ UNCHANGED <<m, ret, marked, call>>
    /\ UNCHANGED concVars
    /\ UNCHANGED auxVars

InitHandler ==
    /\ m = NewMachine(CHOOSE c \in Configs : TRUE)
    /\ ret = NoRet
    /\ \E config \in HandlerConfigs : h = OnHandlers([Latency |-> config])
    /\ e = IdleExecution
    /\ marked = [x \in Hosts |-> 0]
    /\ ConcIdle
    /\ call = NoCall
    /\ AuxIdle

NextHandler ==
    \/ NewExecution
    \/ HandleBeforeExecutionStart
    \/ HandleBeforeAttempt
    \/ HandleAfterAttempt

SpecHandler == InitHandler /\ [][NextHandler]_vars

(***************************************************************************)
(* Goroutines calling State() and Next() on one shared machine, a step     *)
(* being one lock operation or one stretch of the body of Next between two *)
(* assignments to m.state.  The machine is heap[1] and its lock mlk[1].    *)
(* An RWMutex is taken for writing when nobody holds it and for reading    *)
(* when no writer holds it.                                                *)
(***************************************************************************)
Goroutines == {"g1", "g2"}
ConcValues == {1, MaxValue}
\* <<ClosingStreak, ClosingCount, RestingCount>> of the shared machine, whose
\* windows have one slot each and whose AbsThreshold is 2.
ConcLimits == {<<0, 1, 1>>, <<1, 2, 1>>, <<2, 2, 0>>, <<1, 1, 2>>}
ConcConfigs ==
    { [HistoricalSamples |-> 1, RecentSamples |-> 1,
       AbsThreshold |-> 2, PctThreshold |-> 0,
       ClosingStreak |-> l[1], ClosingCount |-> l[2], RestingCount |-> l[3]] :
      l \in ConcLimits }

\* sync.RWMutex: Lock, RLock and their guards.
CanLock(l) == l.w = 0 /\ l.r = 0
CanRLock(l) == l.w = 0
Lock(l) == [l EXCEPT !.w = @ + 1]
Unlock(l) == [l EXCEPT !.w = @ - 1]
RLock(l) == [l EXCEPT !.r = @ + 1]
RUnlock(l) == [l EXCEPT !.r = @ - 1]

\* watching(), up to its last if: the threshold tests and their assignment.
watchingTest(sm) ==
    LET recentAvg == Avg(sm.recent)
    IN  IF sm.config.AbsThreshold > 0 /\ FracGeq(recentAvg, Frac(sm.config.AbsThreshold))
        THEN setState(sm, Closing)
        ELSE IF sm.config.PctThreshold > 0
                /\ FracGeq(recentAvg,
                           FMul(Avg(sm.historical), PctFactor(sm.config.PctThreshold)))
             THEN setState(sm, Closing)
             ELSE sm

\* watching(), its last if: closing(false) when the state is Closing.
watchingCascade(sm) == IF sm.state = Closing THEN closing(sm, FALSE) ELSE sm

\* resting(), up to the call of watching(): cont tells whether it is made.
restingTick(sm) ==
    LET m1 == [sm EXCEPT !.restCount = @ + 1]
    IN  IF m1.restCount >= m1.config.RestingCount
        THEN [m |-> setState([m1 EXCEPT !.restCount = 0], Watching), cont |-> TRUE]
        ELSE [m |-> m1, cont |-> FALSE]

\* A goroutine between calls.
IdleGoroutine ==
    [pc |-> "idle", value |-> 0, closed |-> FALSE, prev |-> Watching,
     res |-> <<>>, want |-> <<>>]

InCall(p) == g[p].pc \notin {"idle", "nextDone", "stateDone"}
\* Goroutine p is inside Next, between taking and releasing the lock.
InNext(p) ==
    g[p].pc \in {"nx_prev", "nx_watching", "nx_watching2", "nx_closing", "nx_resting",
                 "nx_ret"}

\* p calls Next(value, closed).
Next_Call(p) ==
    /\ ~InCall(p)
    /\ \E value \in ConcValues, closed \in BOOLEAN :
          g' = [g EXCEPT ![p] = [IdleGoroutine EXCEPT !.pc = "nx_lock", !.value = value,
                                                     !.closed = closed]]
    /\ UNCHANGED <<heap, mlk, reg, rlk, lin, call>>
    /\ UNCHANGED seqVars
    /\ UNCHANGED auxVars

\* Next_Lock that does not wait for the lock.
Next_Lock_NoWait(p) ==
    /\ g[p].pc = "nx_lock"
    /\ mlk' = [mlk EXCEPT ![1] = Lock(@)]
    /\ LET r == machine_Next(lin[1], g[p].value, g[p].closed)
       IN  /\ lin' = [lin EXCEPT ![1] = r.m]
           /\ g' = [g EXCEPT ![p].pc = "nx_prev", ![p].want = <<r.next, r.prev>>]
    /\ UNCHANGED <<heap, reg, rlk, call>>
    /\ UNCHANGED seqVars
    /\ UNCHANGED auxVars

\* m.lock.Lock().  lin takes the call in at this point.
Next_Lock(p) ==
    /\ g[p].pc = "nx_lock"
    /\ CanLock(mlk[1])
    /\ mlk' = [mlk EXCEPT ![1] = Lock(@)]
    /\ LET r == machine_Next(lin[1], g[p].value, g[p].closed)
       IN  /\ lin' = [lin EXCEPT ![1] = r.m]
           /\ g' = [g EXCEPT ![p].pc = "nx_prev", ![p].want = <<r.next, r.prev>>]
    /\ UNCHANGED <<heap, reg, rlk, call>>
    /\ UNCHANGED seqVars
    /\ UNCHANGED auxVars

\* prev = m.state; m.shift(value); switch prev.
Next_Prev(p) ==
    /\ g[p].pc = "nx_prev"
    /\ LET prev == heap[1].state
       IN  /\ prev \in States
           /\ heap' = [heap EXCEPT ![1] = shift([@ EXCEPT !.trail = <<>>], g[p].value)]
           /\ g' = [g EXCEPT ![p].prev = prev,
                             ![p].pc = CASE prev = Watching -> "nx_watching"
                                         [] prev = Closing  -> "nx_closing"
                                         [] prev = Resting  -> "nx_resting"]
    /\ UNCHANGED <<mlk, reg, rlk, lin, call>>
    /\ UNCHANGED seqVars
    /\ UNCHANGED auxVars

\* m.watching(), the threshold tests.
Next_Watching(p) ==
    /\ g[p].pc = "nx_watching"
    /\ heap' = [heap EXCEPT ![1] = watchingTest(@)]
    /\ g' = [g EXCEPT ![p].pc = "nx_watching2"]
    /\ UNCHANGED <<mlk, reg, rlk, lin, call>>
    /\ UNCHANGED seqVars
    /\ UNCHANGED auxVars

\* m.watching(), the cascade into closing(false).
Next_Watching2(p) ==
    /\ g[p].pc = "nx_watching2"
    /\ heap' = [heap EXCEPT ![1] = watchingCascade(@)]
    /\ g' = [g EXCEPT ![p].pc = "nx_ret"]
    /\ UNCHANGED <<mlk, reg, rlk, lin, call>>
    /\ UNCHANGED seqVars
    /\ UNCHANGED auxVars

\* m.closing(closed)
Next_Closing(p) ==
    /\ g[p].pc = "nx_closing"
    /\ heap' = [heap EXCEPT ![1] = closing(@, g[p].closed)]
    /\ g' = [g EXCEPT ![p].pc = "nx_ret"]
    /\ UNCHANGED <<mlk, reg, rlk, lin, call>>
    /\ UNCHANGED seqVars
    /\ UNCHANGED auxVars

\* m.resting(), up to its call of watching().
Next_Resting(p) ==
    /\ g[p].pc = "nx_resting"
    /\ LET r == restingTick(heap[1])
       IN  /\ heap' = [heap EXCEPT ![1] = r.m]
           /\ g' = [g EXCEPT ![p].pc = IF r.cont THEN "nx_watching" ELSE "nx_ret"]
    /\ UNCHANGED <<mlk, reg, rlk, lin, call>>
    /\ UNCHANGED seqVars
    /\ UNCHANGED auxVars

\* next = m.state; return, the deferred m.lock.Unlock() running.
Next_Return(p) ==
    /\ g[p].pc = "nx_ret"
    /\ mlk' = [mlk EXCEPT ![1] = Unlock(@)]
    /\ g' = [g EXCEPT ![p].pc = "nextDone", ![p].res = <<heap[1].state, g[p].prev>>,
                      ![p].value = 0, ![p].closed = FALSE, ![p].prev = Watching]
    /\ UNCHANGED <<heap, reg, rlk, lin, call>>
    /\ UNCHANGED seqVars
    /\ UNCHANGED auxVars

\* p calls State().
State_Call(p) ==
    /\ ~InCall(p)
    /\ g' = [g EXCEPT ![p] = [IdleGoroutine EXCEPT !.pc = "st_rlock"]]
    /\ UNCHANGED <<heap, mlk, reg, rlk, lin, call>>
    /\ UNCHANGED seqVars
    /\ UNCHANGED auxVars

\* State_RLock that does not wait for the lock.
State_RLock_NoWait(p) ==
    /\ g[p].pc = "st_rlock"
    /\ mlk' = [mlk EXCEPT ![1] = RLock(@)]
    /\ g' = [g EXCEPT ![p].pc = "st_read"]
    /\ UNCHANGED <<heap, reg, rlk, lin, call>>
    /\ UNCHANGED seqVars
    /\ UNCHANGED auxVars

\* m.lock.RLock()
State_RLock(p) ==
    /\ g[p].pc = "st_rlock"
    /\ CanRLock(mlk[1])
    /\ mlk' = [mlk EXCEPT ![1] = RLock(@)]
    /\ g' = [g EXCEPT ![p].pc = "st_read"]
    /\ UNCHANGED <<heap, reg, rlk, lin, call>>
    /\ UNCHANGED seqVars
    /\ UNCHANGED auxVars

\* return m.state, the deferred m.lock.RUnlock() running.  want is the set
\* of states a Next call has settled on at this point: the state after the
\* calls taken in so far and the entry state of each call still inside Next.
State_Return(p) ==
    /\ g[p].pc = "st_read"
    /\ mlk' = [mlk EXCEPT ![1] = RUnlock(@)]
    /\ g' = [g EXCEPT ![p].pc = "stateDone", ![p].res = <<heap[1].state>>,
                      ![p].want = {lin[1].state}
                                  \cup {g[q].want[2] : q \in {x \in Goroutines : InNext(x)}}]
    /\ UNCHANGED <<heap, reg, rlk, lin, call>>
    /\ UNCHANGED seqVars
    /\ UNCHANGED auxVars

InitMachineConc ==
    /\ m = NewMachine(CHOOSE c \in Configs : TRUE)
    /\ ret = NoRet
    /\ h = OnHandlers([Latency |-> CHOOSE c \in HandlerConfigs : TRUE])
    /\ e = IdleExecution
    /\ marked = [x \in Hosts |-> 0]
    /\ call = NoCall
    /\ AuxIdle
    /\ \E config \in ConcConfigs :
          /\ heap = <<NewMachine(config)>>
          /\ lin = <<NewMachine(config)>>
    /\ mlk = <<Unlocked>>
    /\ reg = <<>>
    /\ rlk = Unlocked
    /\ g = [p \in Goroutines |-> IdleGoroutine]

NextMachineConc ==
    \E p \in Goroutines :
        \/ Next_Call(p)
        \/ Next_Lock(p)
        \/ Next_Prev(p)
        \/ Next_Watching(p)
        \/ Next_Watching2(p)
        \/ Next_Closing(p)
        \/ Next_Resting(p)
        \/ Next_Return(p)
        \/ State_Call(p)
        \/ State_RLock(p)
        \/ State_Return(p)

SpecMachineConc == InitMachineConc /\ [][NextMachineConc]_vars

(***************************************************************************)
(* Goroutines running executions through one shared handler, a step being  *)
(* one lock operation or the code between two lock operations.  Each       *)
(* goroutine runs executions of one attempt: BeforeExecutionStart,         *)
(* BeforeAttempt, AfterAttempt.  g[p].e is the execution, g[p].sm the      *)
(* machine pointer held in the local sm (0 for nil).                       *)
(***************************************************************************)
\* <<ClosingStreak, ClosingCount, RestingCount>> of the handler's machines,
\* whose windows have one slot each and whose AbsThreshold is 2.
\* The host names the goroutines make requests to.
ConcHosts == {"foo.com", "bar.org"}
HandlerConcLimits == {<<1, 1, 1>>, <<2, 2, 0>>}
HandlerConcConfigs ==
    { [HistoricalSamples |-> 1, RecentSamples |-> 1,
       AbsThreshold |-> 2, PctThreshold |-> 0,
       ClosingStreak |-> l[1], ClosingCount |-> l[2], RestingCount |-> l[3]] :
      l \in HandlerConcLimits }

\* A goroutine between executions.
IdleHandlerGoroutine == [pc |-> "idle", e |-> IdleExecution, sm |-> 0]

\* The client starts an execution for a host; Handle(BeforeExecutionStart, e)
\* runs, and the client makes the attempt's request.
HC_NewExecution(p) ==
    /\ g[p].pc = "idle"
    /\ \E x \in ConcHosts :
          g' = [g EXCEPT ![p].pc = "ba",
                         ![p].e = beforeExecutionStart(
                                     [IdleExecution EXCEPT
                                        !.Plan = [nil |-> FALSE, Host |-> x],
                                        !.Request = [nil |-> FALSE, Close |-> FALSE]])]
    /\ UNCHANGED <<heap, mlk, reg, rlk, lin, call>>
    /\ UNCHANGED seqVars
    /\ UNCHANGED auxVars

\* beforeAttempt up to the append of the start time; a failed check returns
\* and the attempt goes ahead.
BA_Checks(p) ==
    /\ g[p].pc = "ba"
    /\ LET x == g[p].e
           eh == getExecutionHost(x)
       IN  IF ~eh.ok \/ x.Request.nil \/ x.es.nil \/ x.es.attemptStart # x.Attempt
           THEN g' = [g EXCEPT ![p].pc = "aa"]
           ELSE g' = [g EXCEPT ![p].pc = "goc_lock", ![p].e.es.attemptStart = @ + 1]
    /\ UNCHANGED <<heap, mlk, reg, rlk, lin, call>>
    /\ UNCHANGED seqVars
    /\ UNCHANGED auxVars

\* Goc_Lock that does not wait for the lock.
Goc_Lock_NoWait(p) ==
    /\ g[p].pc = "goc_lock"
    /\ rlk' = Lock(rlk)
    /\ g' = [g EXCEPT ![p].pc = "goc_lookup"]
    /\ UNCHANGED <<heap, mlk, reg, lin, call>>
    /\ UNCHANGED seqVars
    /\ UNCHANGED auxVars

\* getOrCreateHostLatencyStateMachine: h.hostLatencyLock.Lock()
Goc_Lock(p) ==
    /\ g[p].pc = "goc_lock"
    /\ CanLock(rlk)
    /\ rlk' = Lock(rlk)
    /\ g' = [g EXCEPT ![p].pc = "goc_lookup"]
    /\ UNCHANGED <<heap, mlk, reg, lin, call>>
    /\ UNCHANGED seqVars
    /\ UNCHANGED auxVars

\* Goc_Lookup that returns the first machine registered, whatever its host.
Goc_Lookup_AnyHost(p) ==
    /\ g[p].pc = "goc_lookup"
    /\ IF reg # <<>>
       THEN g' = [g EXCEPT ![p].pc = "goc_unlock", ![p].sm = 1]
       ELSE g' = [g EXCEPT ![p].pc = "goc_create"]
    /\ UNCHANGED <<heap, mlk, reg, rlk, lin, call>>
    /\ UNCHANGED seqVars
    /\ UNCHANGED auxVars

\* if sm, ok := h.hostLatency[host]; ok { return sm }
Goc_Lookup(p) ==
    /\ g[p].pc = "goc_lookup"
    /\ LET host == g[p].e.Plan.Host
       IN  IF host \in DOMAIN reg
           THEN g' = [g EXCEPT ![p].pc = "goc_unlock", ![p].sm = reg[host]]
           ELSE g' = [g EXCEPT ![p].pc = "goc_create"]
    /\ UNCHANGED <<heap, mlk, reg, rlk, lin, call>>
    /\ UNCHANGED seqVars
    /\ UNCHANGED auxVars

\* sm := NewMachine(h.Latency); h.hostLatency[host] = sm
Goc_Create(p) ==
    /\ g[p].pc = "goc_create"
    /\ LET host == g[p].e.Plan.Host
           ptr == Len(heap) + 1
       IN  /\ heap' = Append(heap, NewMachine(h.Config.Latency))
           /\ mlk' = Append(mlk, Unlocked)
           /\ reg' = [x \in DOMAIN reg \cup {host} |-> IF x = host THEN ptr ELSE reg[x]]
           /\ g' = [g EXCEPT ![p].pc = "goc_unlock", ![p].sm = ptr]
    /\ UNCHANGED <<rlk, lin, call>>
    /\ UNCHANGED seqVars
    /\ UNCHANGED auxVars

\* return sm, the deferred h.hostLatencyLock.Unlock() running.
Goc_Unlock(p) ==
    /\ g[p].pc = "goc_unlock"
    /\ rlk' = Unlock(rlk)
    /\ g' = [g EXCEPT ![p].pc = "st_rlock"]
    /\ UNCHANGED <<heap, mlk, reg, lin, call>>
    /\ UNCHANGED seqVars
    /\ UNCHANGED auxVars

\* sm.State(): m.lock.RLock()
BA_StateRLock(p) ==
    /\ g[p].pc = "st_rlock"
    /\ CanRLock(mlk[g[p].sm])
    /\ mlk' = [mlk EXCEPT ![g[p].sm] = RLock(@)]
    /\ g' = [g EXCEPT ![p].pc = "st_read"]
    /\ UNCHANGED <<heap, reg, rlk, lin, call>>
    /\ UNCHANGED seqVars
    /\ UNCHANGED auxVars

\* BA_StateRead that never asks for the connection to be closed.
BA_StateRead_NoClose(p) ==
    /\ g[p].pc = "st_read"
    /\ mlk' = [mlk EXCEPT ![g[p].sm] = RUnlock(@)]
    /\ g' = [g EXCEPT ![p].pc = "aa", ![p].sm = 0]
    /\ UNCHANGED <<heap, reg, rlk, lin, call>>
    /\ UNCHANGED seqVars
    /\ UNCHANGED auxVars

\* if sm.State() == Closing { r.Close = true }, the read lock being released.
BA_StateRead(p) ==
    /\ g[p].pc = "st_read"
    /\ mlk' = [mlk EXCEPT ![g[p].sm] = RUnlock(@)]
    /\ g' = [g EXCEPT ![p].pc = "aa", ![p].sm = 0,
                      ![p].e.Request.Close =
                          IF machine_State(heap[g[p].sm]) = Closing THEN TRUE ELSE @]
    /\ UNCHANGED <<heap, reg, rlk, lin, call>>
    /\ UNCHANGED seqVars
    /\ UNCHANGED auxVars

\* afterAttempt up to the computation of d; a failed check returns.
AA_Checks(p) ==
    /\ g[p].pc = "aa"
    /\ LET x == g[p].e
           eh == getExecutionHost(x)
       IN  IF ~eh.ok \/ x.es.nil \/ x.Attempt >= x.es.attemptStart
           THEN g' = [g EXCEPT ![p] = IdleHandlerGoroutine]
           ELSE g' = [g EXCEPT ![p].pc = "get_rlock"]
    /\ UNCHANGED <<heap, mlk, reg, rlk, lin, call>>
    /\ UNCHANGED seqVars
    /\ UNCHANGED auxVars

\* getHostLatencyStateMachine: h.hostLatencyLock.RLock()
Get_RLock(p) ==
    /\ g[p].pc = "get_rlock"
    /\ CanRLock(rlk)
    /\ rlk' = RLock(rlk)
    /\ g' = [g EXCEPT ![p].pc = "get_read"]
    /\ UNCHANGED <<heap, mlk, reg, lin, call>>
    /\ UNCHANGED seqVars
    /\ UNCHANGED auxVars

\* Get_Read that looks up the first registered host instead of its own.
Get_Read_WrongKey(p) ==
    /\ g[p].pc = "get_read"
    /\ rlk' = RUnlock(rlk)
    /\ LET host == g[p].e.Plan.Host
       IN  IF host \in DOMAIN reg
           THEN g' = [g EXCEPT ![p].pc = "nx_lock",
                               ![p].sm = reg[CHOOSE x \in DOMAIN reg : reg[x] = 1]]
           ELSE g' = [g EXCEPT ![p] = IdleHandlerGoroutine]
    /\ UNCHANGED <<heap, mlk, reg, lin, call>>
    /\ UNCHANGED seqVars
    /\ UNCHANGED auxVars

\* return h.hostLatency[host], the deferred RUnlock running; afterAttempt
\* returns when it is nil.
Get_Read(p) ==
    /\ g[p].pc = "get_read"
    /\ rlk' = RUnlock(rlk)
    /\ LET host == g[p].e.Plan.Host
       IN  IF host \in DOMAIN reg
           THEN g' = [g EXCEPT ![p].pc = "nx_lock", ![p].sm = reg[host]]
           ELSE g' = [g EXCEPT ![p] = IdleHandlerGoroutine]
    /\ UNCHANGED <<heap, mlk, reg, lin, call>>
    /\ UNCHANGED seqVars
    /\ UNCHANGED auxVars

\* sm.Next(...): m.lock.Lock()
AA_NextLock(p) ==
    /\ g[p].pc = "nx_lock"
    /\ CanLock(mlk[g[p].sm])
    /\ mlk' = [mlk EXCEPT ![g[p].sm] = Lock(@)]
    /\ g' = [g EXCEPT ![p].pc = "nx_body"]
    /\ UNCHANGED <<heap, reg, rlk, lin, call>>
    /\ UNCHANGED seqVars
    /\ UNCHANGED auxVars

\* The body of sm.Next(float64(d.Milliseconds()), e.Request.Close) under the
\* lock.  d was computed before the lookup; nothing reads it until here,
\* where the model draws it.  lin takes the sample in for the goroutine's host.
AA_NextBody(p) ==
    /\ g[p].pc = "nx_body"
    /\ \E d \in Durations :
          LET host == g[p].e.Plan.Host
              r == machine_Next(heap[g[p].sm], d, g[p].e.Request.Close)
              l == machine_Next(lin[host], d, g[p].e.Request.Close)
          IN  /\ r.panic = ""
              /\ heap' = [heap EXCEPT ![g[p].sm] = r.m]
              /\ lin' = [lin EXCEPT ![host] = l.m]
    /\ g' = [g EXCEPT ![p].pc = "nx_unlock"]
    /\ UNCHANGED <<mlk, reg, rlk, call>>
    /\ UNCHANGED seqVars
    /\ UNCHANGED auxVars

\* Next returns, the deferred m.lock.Unlock() running; the execution ends.
AA_NextUnlock(p) ==
    /\ g[p].pc = "nx_unlock"
    /\ mlk' = [mlk EXCEPT ![g[p].sm] = Unlock(@)]
    /\ g' = [g EXCEPT ![p] = IdleHandlerGoroutine]
    /\ UNCHANGED <<heap, reg, rlk, lin, call>>
    /\ UNCHANGED seqVars
    /\ UNCHANGED auxVars

InitHandlerConc ==
    /\ m = NewMachine(CHOOSE c \in Configs : TRUE)
    /\ ret = NoRet
    /\ e = IdleExecution
    /\ marked = [x \in Hosts |-> 0]
    /\ call = NoCall
    /\ AuxIdle
    /\ \E config \in HandlerConcConfigs :
          /\ h = OnHandlers([Latency |-> config])
          /\ lin = [x \in ConcHosts |-> NewMachine(config)]
    /\ heap = <<>>
    /\ mlk = <<>>
    /\ reg = <<>>
    /\ rlk = Unlocked
    /\ g = [p \in Goroutines |-> IdleHandlerGoroutine]

NextHandlerConc ==
    \E p \in Goroutines :
        \/ HC_NewExecution(p)
        \/ BA_Checks(p)
        \/ Goc_Lock(p)
        \/ Goc_Lookup(p)
        \/ Goc_Create(p)
        \/ Goc_Unlock(p)
        \/ BA_StateRLock(p)
        \/ BA_StateRead(p)
        \/ AA_Checks(p)
        \/ Get_RLock(p)
        \/ Get_Read(p)
        \/ AA_NextLock(p)
        \/ AA_NextBody(p)
        \/ AA_NextUnlock(p)

SpecHandlerConc == InitHandlerConc /\ [][NextHandlerConc]_vars

(***************************************************************************)
(* One client whose events arrive in order, as under SpecHandler, the      *)
(* handler's machines having the configurations of HandlerConcConfigs.     *)
(***************************************************************************)
InitHandlerOrder ==
    /\ m = NewMachine(CHOOSE c \in Configs : TRUE)
    /\ ret = NoRet
    /\ \E config \in HandlerConcConfigs : h = OnHandlers([Latency |-> config])
    /\ e = IdleExecution
    /\ marked = [x \in Hosts |-> 0]
    /\ ConcIdle
    /\ call = NoCall
    /\ AuxIdle

SpecHandlerOrder == InitHandlerOrder /\ [][NextHandler]_vars

(***************************************************************************)
(* The same goroutines making all their requests to one host, each one     *)
(* going on for ever: when an execution ends the client starts the next,   *)
(* and the scheduler does not leave for ever a goroutine that can run.     *)
(***************************************************************************)
FairHost == "foo.com"

\* <<ClosingStreak, ClosingCount, RestingCount>>, the first two at least 1.
HandlerFairLimits == {<<1, 1, 1>>, <<2, 2, 0>>, <<MaxCount + 1, MaxCount, 1>>}
HandlerFairConfigs ==
    { [HistoricalSamples |-> 1, RecentSamples |-> 1,
       AbsThreshold |-> 2, PctThreshold |-> 0,
       ClosingStreak |-> l[1], ClosingCount |-> l[2], RestingCount |-> l[3]] :
      l \in HandlerFairLimits }

\* The client starts an execution for the host; Handle(BeforeExecutionStart, e)
\* runs, and the client makes the attempt's request.
HF_NewExecution(p) ==
    /\ g[p].pc = "idle"
    /\ g' = [g EXCEPT ![p].pc = "ba",
                      ![p].e = beforeExecutionStart(
                                  [IdleExecution EXCEPT
                                     !.Plan = [nil |-> FALSE, Host |-> FairHost],
                                     !.Request = [nil |-> FALSE, Close |-> FALSE]])]
    /\ UNCHANGED <<heap, mlk, reg, rlk, lin, call>>
    /\ UNCHANGED seqVars
    /\ UNCHANGED auxVars

InitHandlerFair ==
    /\ m = NewMachine(CHOOSE c \in Configs : TRUE)
    /\ ret = NoRet
    /\ e = IdleExecution
    /\ marked = [x \in Hosts |-> 0]
    /\ call = NoCall
    /\ AuxIdle
    /\ \E config \in HandlerFairConfigs :
          /\ h = OnHandlers([Latency |-> config])
          /\ lin = [x \in {FairHost} |-> NewMachine(config)]
    /\ heap = <<>>
    /\ mlk = <<>>
    /\ reg = <<>>
    /\ rlk = Unlocked
    /\ g = [p \in Goroutines |-> IdleHandlerGoroutine]

NextHandlerFair ==
    \E p \in Goroutines :
        \/ HF_NewExecution(p)
        \/ BA_Checks(p)
        \/ Goc_Lock(p)
        \/ Goc_Lookup(p)
        \/ Goc_Create(p)
        \/ Goc_Unlock(p)
        \/ BA_StateRLock(p)
        \/ BA_StateRead(p)
        \/ AA_Checks(p)
        \/ Get_RLock(p)
        \/ Get_Read(p)
        \/ AA_NextLock(p)
        \/ AA_NextBody(p)
        \/ AA_NextUnlock(p)

\* The steps of a goroutine other than the body of Next.
HF_Steps(p) ==
    \/ HF_NewExecution(p)
    \/ BA_Checks(p)
    \/ Goc_Lock(p)
    \/ Goc_Lookup(p)
    \/ Goc_Create(p)
    \/ Goc_Unlock(p)
    \/ BA_StateRLock(p)
    \/ BA_StateRead(p)
    \/ AA_Checks(p)
    \/ Get_RLock(p)
    \/ Get_Read(p)
    \/ AA_NextLock(p)
    \/ AA_NextUnlock(p)

\* The body of Next as the goroutine's position shows it: AA_NextBody(p) is
\* the one step that takes g[p] from "nx_body" to "nx_unlock".
HF_Body(p) ==
    /\ g[p].pc = "nx_body"
    /\ g' = [g EXCEPT ![p].pc = "nx_unlock"]

\* A goroutine that can go on does: the client starts the next execution,
\* the handler's code runs, and a lock that stays free is taken.
FairHandler ==
    \A p \in Goroutines : WF_vars(HF_Steps(p)) /\ WF_g(HF_Body(p))

SpecHandlerFair == InitHandlerFair /\ [][NextHandlerFair]_vars /\ FairHandler

(***************************************************************************)
(* Handle called with executions made by hand, as the handler's tests do:  *)
(* any plan, request, attempt index and execution state.                   *)
(***************************************************************************)
\* <<ClosingStreak, ClosingCount, RestingCount>> of the handler's machines,
\* whose windows have one slot each and whose AbsThreshold is 2.
EventLimits == {<<1, 1, 1>>}
EventConfigs ==
    { [HistoricalSamples |-> 1, RecentSamples |-> 1,
       AbsThreshold |-> 2, PctThreshold |-> 0,
       ClosingStreak |-> l[1], ClosingCount |-> l[2], RestingCount |-> l[3]] :
      l \in EventLimits }
\* Attempt indices and numbers of recorded attempt starts.
EventAttempts == {0, 1}
EventStates ==
    {NilState} \cup { [nil |-> FALSE, attemptStart |-> n] : n \in EventAttempts }
EventExecutions ==
    { [IdleExecution EXCEPT !.Plan = p, !.Request = r, !.Attempt = a, !.es = x] :
      p \in Plans, r \in Requests, a \in EventAttempts, x \in EventStates }

\* Handle(BeforeAttempt, e)
DeliverBeforeAttempt ==
    /\ \E x \in EventExecutions :
          LET r == beforeAttempt(h, x)
          IN  /\ h' = r.h
              /\ call' = [evt |-> "BeforeAttempt", hin |-> h, ein |-> x, eout |-> r.e,
                          started |-> r.started, closeSet |-> r.closeSet,
                          fed |-> FALSE, panic |-> ""]
    /\ UNCHANGED <<m, ret, e, marked>>
    /\ UNCHANGED concVars
    /\ UNCHANGED auxVars

\* Handle(AfterAttempt, e), d milliseconds after the attempt's start.  A call
\* that panics leaves the handler as the panic found it.
DeliverAfterAttempt ==
    /\ \E x \in EventExecutions, d \in Durations :
          LET r == afterAttempt(h, x, d)
          IN  /\ h' = r.h
              /\ call' = [evt |-> "AfterAttempt", hin |-> h, ein |-> x, eout |-> r.e,
                          started |-> FALSE, closeSet |-> FALSE,
                          fed |-> r.fed, panic |-> r.panic]
    /\ UNCHANGED <<m, ret, e, marked>>
    /\ UNCHANGED concVars
    /\ UNCHANGED auxVars

InitEvents ==
    /\ m = NewMachine(CHOOSE c \in Configs : TRUE)
    /\ ret = NoRet
    /\ \E config \in EventConfigs : h = OnHandlers([Latency |-> config])
    /\ e = IdleExecution
    /\ marked = [x \in Hosts |-> 0]
    /\ ConcIdle
    /\ call = NoCall
    /\ AuxIdle

NextEvents ==
    \/ DeliverBeforeAttempt
    \/ DeliverAfterAttempt

SpecEvents == InitEvents /\ [][NextEvents]_vars

(***************************************************************************)
(* Construction: a machine as NewMachine made it, given its first sample,  *)
(* and a window as newAvgWindow made it, given pushes.                     *)
(***************************************************************************)
\* HistoricalSamples and RecentSamples tried (0 asks for the default).
NewSizes == {0, 1, 2}
NewThresholds == {<<2, 0>>, <<87, 0>>, <<0, 50>>, <<-1, 50>>, <<-87, 50>>}
NewLimits == {<<1, 2, 1>>, <<0, 1, 0>>}
NewConfigs ==
    { [HistoricalSamples |-> hs, RecentSamples |-> rs,
       AbsThreshold |-> t[1], PctThreshold |-> t[2],
       ClosingStreak |-> l[1], ClosingCount |-> l[2], RestingCount |-> l[3]] :
      hs \in {0, 2}, rs \in NewSizes, t \in NewThresholds, l \in NewLimits }
\* First samples: below, at and above the thresholds.
NewValues == {0, 1, MaxValue, 86, 87, 88}
\* Default values of a window and values pushed into it.
WindowDefaults == {-1, 87}
PushValues == {1, 3}

\* The first Next call on the new machine.
FirstNext ==
    /\ ~ret.called
    /\ \E value \in NewValues, closed \in BOOLEAN :
          LET r == machine_Next(m, value, closed)
          IN  /\ r.panic = ""
              /\ m' = r.m
              /\ ret' = [called |-> TRUE, first |-> TRUE, next |-> r.next,
                         prev |-> r.prev, value |-> value, closed |-> closed,
                         expected |-> Watching, entry |-> Counters(m)]
    /\ UNCHANGED <<h, e, marked, call, w, tr>>
    /\ UNCHANGED concVars

\* aw.Push(value) on the window, if newAvgWindow yielded one.
WindowPush ==
    /\ w.aw.panic = ""
    /\ Len(w.pushed) < MaxPushes
    /\ \E value \in PushValues :
          LET r == Push(w.aw, value)
          IN  w' = [w EXCEPT !.aw = r.aw, !.pushed = Append(@, value),
                             !.dropped = Append(@, r.dropped)]
    /\ UNCHANGED <<h, e, marked, call, m, ret, tr>>
    /\ UNCHANGED concVars

InitNew ==
    /\ \E config \in NewConfigs : m = NewMachine(config)
    /\ ret = NoRet
    /\ h = OnHandlers([Latency |-> CHOOSE c \in HandlerConfigs : TRUE])
    /\ e = IdleExecution
    /\ marked = [x \in Hosts |-> 0]
    /\ ConcIdle
    /\ call = NoCall
    /\ \E n \in 0..MaxLen, def \in WindowDefaults :
          w = [n |-> n, def |-> def, aw |-> newAvgWindow(n, def),
               pushed |-> <<>>, dropped |-> <<>>]
    /\ tr = NoTrace

NextNew == FirstNext \/ WindowPush

SpecNew == InitNew /\ [][NextNew]_vars

(***************************************************************************)
(* A machine with the record of what it was fed: the samples of the last   *)
(* HistoricalSamples + RecentSamples calls, and the closed flags of the    *)
(* calls made since the machine last arrived in Closing.                   *)
(***************************************************************************)
\* At most MaxFlags calls are made in one stay in Closing.
MaxFlags == 4
TraceValues == {-1, 1, MaxValue}
TraceSizes == {<<1, 1>>, <<1, 2>>, <<2, 2>>}
TraceThresholds == {<<2, 0>>, <<0, 50>>, <<-1, 50>>}
TraceLimits ==
    {<<0, 1, 1>>, <<0, 2, 0>>, <<1, 0, 0>>, <<2, 0, 1>>, <<1, 2, 1>>, <<2, 2, 0>>, <<2, 3, 2>>}
TraceConfigs ==
    { [HistoricalSamples |-> s[1], RecentSamples |-> s[2],
       AbsThreshold |-> t[1], PctThreshold |-> t[2],
       ClosingStreak |-> l[1], ClosingCount |-> l[2], RestingCount |-> l[3]] :
      s \in TraceSizes, t \in TraceThresholds, l \in TraceLimits }

\* The last n elements of a sequence.
LastN(s, n) == IF Len(s) <= n THEN s ELSE SubSeq(s, Len(s) - n + 1, Len(s))

TraceNext ==
    /\ m.state = Closing => Len(tr.flags) < MaxFlags
    /\ \E value \in TraceValues, closed \in BOOLEAN :
          LET r == machine_Next(m, value, closed)
              k == Len(m.historical.values) + Len(m.recent.values)
          IN  /\ r.panic = ""
              /\ m' = r.m
              /\ ret' = [called |-> TRUE, first |-> ~ret.called, next |-> r.next,
                         prev |-> r.prev, value |-> value, closed |-> closed,
                         expected |-> IF ret.called THEN ret.next ELSE Watching,
                         entry |-> Counters(m)]
              /\ tr' = [n |-> Min(tr.n + 1, k),
                        last |-> LastN(Append(tr.last, value), k),
                        flags |-> IF r.next # Closing \/ r.prev # Closing
                                  THEN <<>>
                                  ELSE Append(tr.flags, closed)]
    /\ UNCHANGED <<h, e, marked, call, w>>
    /\ UNCHANGED concVars

InitTrace ==
    /\ \E config \in TraceConfigs : m = NewMachine(config)
    /\ ret = NoRet
    /\ h = OnHandlers([Latency |-> CHOOSE c \in HandlerConfigs : TRUE])
    /\ e = IdleExecution
    /\ marked = [x \in Hosts |-> 0]
    /\ ConcIdle
    /\ call = NoCall
    /\ w = NoWindow
    /\ tr = NoTrace

NextTrace == TraceNext

SpecTrace == InitTrace /\ [][NextTrace]_vars

(***************************************************************************)
(* Properties of the machine (checked under Spec).                         *)
(***************************************************************************)
\* The state a caller expects before the next call: the last returned next.
LastNext == IF ret.called THEN ret.next ELSE Watching

\* The exact sum of a window's current slots.
RECURSIVE SeqSum(_)
SeqSum(seq) == IF seq = <<>> THEN 0 ELSE Head(seq) + SeqSum(Tail(seq))

\* The slot of the recent window written by the most recent Next call.
LastWritten(aw) == aw.values[((aw.index + Len(aw.values) - 1) % Len(aw.values)) + 1]

\* C1: a newly constructed machine is Watching: State() before any Next
\* returns Watching, and the first Next returns prev = Watching.
C1_StartsWatching ==
    /\ ~ret.called => machine_State(m) = Watching
    /\ (ret.called /\ ret.first) => ret.prev = Watching

C1_Witness == ret.called /\ ret.first /\ ret.next = Closing

\* The step is a Next call: the call ret' describes, made on m.
NextStep ==
    /\ ret'.called
    /\ LET r == machine_Next(m, ret'.value, ret'.closed)
       IN  m' = r.m /\ ret'.next = r.next /\ ret'.prev = r.prev

\* C2: with calls made one after another, State() equals the next returned
\* by the most recent Next (Watching before the first), the following Next
\* returns that value as prev, and a step that is not a Next call (a State()
\* call) changes neither the state, the counters nor the windows.
C2_StateIsLastNext ==
    /\ [](/\ machine_State(m) = LastNext
          /\ ret.called => ret.prev = ret.expected)
    /\ [][~NextStep => m' = m]_vars

C2_Witness == ret.called /\ ~ret.first /\ ret.prev = Closing /\ ret.next = Resting

\* C3 as stated: whenever Next returns next = prev, the state field was not
\* moved during the call.
C3_EqualMeansNoTransition ==
    (ret.called /\ ret.next = ret.prev) => m.trail = <<>>

\* C3 amended: with ClosingStreak >= 1 and ClosingCount >= 1, a Next call that
\* returns next = prev assigned the state field nothing and reset no counter
\* by a transition (closedCount and restCount did not go back to 0).
C3_EqualMeansNoTransitionIfLimitsPositive ==
    (/\ ret.called
     /\ ret.next = ret.prev
     /\ m.config.ClosingStreak >= 1
     /\ m.config.ClosingCount >= 1)
    => /\ m.trail = <<>>
       /\ m.closedCount >= ret.entry.closedCount
       /\ m.restCount >= ret.entry.restCount

C3_Witness ==
    /\ ret.called /\ ret.prev = Closing /\ ret.next = Closing /\ ret.closed
    /\ m.config.ClosingStreak >= 1 /\ m.config.ClosingCount >= 1

C7_ZeroLimitNeverClosing ==
    (m.config.ClosingStreak = 0 \/ m.config.ClosingCount = 0)
    => /\ machine_State(m) # Closing
       /\ ret.called => (ret.next # Closing /\ ret.prev # Closing)

\* A call under a zero limit during which the entry condition held.
C7_Witness ==
    /\ m.config.ClosingStreak = 0 /\ m.config.ClosingCount > 0
    /\ ret.called /\ m.trail # <<>> /\ Head(m.trail) = Closing

\* C8: with RestingCount = 0 the state is always Watching or Closing, the
\* state field is never set to Resting, and a call that leaves Closing
\* returns Watching.
C8_ZeroRestNeverResting ==
    m.config.RestingCount = 0
    => /\ machine_State(m) \in {Watching, Closing}
       /\ \A i \in 1..Len(m.trail) : m.trail[i] # Resting
       /\ (ret.called /\ ret.prev = Closing /\ ret.next # Closing) => ret.next = Watching

C8_Witness ==
    /\ m.config.RestingCount = 0
    /\ ret.called /\ ret.prev = Closing /\ ret.next = Watching

\* C9: a Next call entered in Closing leaves Closing if and only if, once its
\* closed flag is applied to the counters, closedStreak >= ClosingStreak or
\* closedCount >= ClosingCount; it then goes to Resting when RestingCount > 0
\* and to Watching otherwise; in every other case it stays Closing with the
\* counters as updated.
C9_ClosingExit ==
    (ret.called /\ ret.prev = Closing)
    => LET c == m.config
           streak == IF ret.closed THEN ret.entry.closedStreak + 1 ELSE 0
           count == IF ret.closed THEN ret.entry.closedCount + 1 ELSE ret.entry.closedCount
           exit == streak >= c.ClosingStreak \/ count >= c.ClosingCount
       IN  /\ exit => ret.next = (IF c.RestingCount > 0 THEN Resting ELSE Watching)
           /\ ~exit => /\ ret.next = Closing
                       /\ m.closedStreak = streak
                       /\ m.closedCount = count

\* Closing left through the count while the streak was still short.
C9_Witness ==
    /\ ret.called /\ ret.prev = Closing /\ ret.next = Resting /\ ret.closed
    /\ m.config.ClosingStreak > m.config.ClosingCount

\* C11: for RestingCount = R >= 1 the machine enters Resting with restCount =
\* 0; a Next call entered in Resting that is not yet the R-th of the rest
\* returns (Resting, Resting) whatever its value and closed flag, assigns the
\* state field nothing (no threshold is evaluated) and only counts; the R-th
\* call ends the rest (restCount back to 0, state field set to Watching).
C11_RestLastsExactlyR ==
    LET R == m.config.RestingCount
    IN  /\ machine_State(m) = Resting => (R >= 1 /\ m.restCount < R)
        /\ machine_State(m) # Resting => m.restCount = 0
        /\ (ret.called /\ ret.prev # Resting /\ ret.next = Resting) => m.restCount = 0
        /\ (ret.called /\ ret.prev = Resting)
           => /\ (ret.entry.restCount + 1 < R)
                 => /\ ret.next = Resting
                    /\ m.trail = <<>>
                    /\ m.restCount = ret.entry.restCount + 1
                    /\ m.closedStreak = ret.entry.closedStreak
                    /\ m.closedCount = ret.entry.closedCount
              /\ (ret.entry.restCount + 1 >= R)
                 => (m.trail # <<>> /\ Head(m.trail) = Watching)

\* A call inside the rest fed the largest value with closed = true.
C11_Witness ==
    /\ ret.called /\ ret.prev = Resting /\ ret.next = Resting /\ m.trail = <<>>
    /\ ret.value = MaxValue /\ ret.closed
    /\ m.restCount = m.config.RestingCount - 1

\* The Watching entry condition on the windows of sm as they are now.
ThresholdMet(sm) ==
    LET c == sm.config
        rsum == SeqSum(sm.recent.values)
        rlen == Len(sm.recent.values)
        hsum == SeqSum(sm.historical.values)
        hlen == Len(sm.historical.values)
    IN  \/ c.AbsThreshold > 0 /\ rsum >= c.AbsThreshold * rlen
        \/ c.PctThreshold > 0 /\ rsum * hlen * 100 >= hsum * (100 + c.PctThreshold) * rlen

\* C12: the Next call at which restCount reaches RestingCount resets
\* restCount to 0, sets Watching and evaluates the Watching entry condition
\* on the just-shifted windows in the same call: it returns (Closing, Resting)
\* when the condition holds and both closing limits are >= 1, and (Watching,
\* Resting) when the condition does not hold.
C12_RestEndReevaluates ==
    (ret.called /\ ret.prev = Resting /\ ret.entry.restCount + 1 >= m.config.RestingCount)
    => /\ m.restCount = 0
       /\ m.trail # <<>> /\ Head(m.trail) = Watching
       /\ (ThresholdMet(m) /\ m.config.ClosingStreak >= 1 /\ m.config.ClosingCount >= 1)
          => (ret.next = Closing /\ m.trail = <<Watching, Closing>>)
       /\ ~ThresholdMet(m) => (ret.next = Watching /\ m.trail = <<Watching>>)

C12_Witness ==
    /\ ret.called /\ ret.prev = Resting /\ ret.next = Closing
    /\ m.config.RestingCount = 2

(***************************************************************************)
(* Properties of the handler (checked under SpecHandler).                  *)
(***************************************************************************)
\* An attempt to host x is under way whose beforeAttempt passed its checks.
InFlight(x) == e.phase = "attempt" /\ e.started /\ e.Plan.Host = x

\* C6: with AbsThreshold <= 0 and PctThreshold <= 0 connections are never
\* closed: every registered machine stays Watching (its state field is never
\* assigned) and beforeAttempt never sets Request.Close.
C6_DisabledNeverCloses ==
    LET c == h.Config.Latency
    IN  (c.AbsThreshold <= 0 /\ c.PctThreshold <= 0)
        => /\ \A x \in DOMAIN h.hostLatency :
                /\ machine_State(h.hostLatency[x]) = Watching
                /\ h.hostLatency[x].trail = <<>>
           /\ \A x \in Hosts : marked[x] = 0
           /\ ~e.closeSet

\* Samples at the top of the range were fed and another attempt has begun.
C6_Witness ==
    LET c == h.Config.Latency
    IN  /\ c.AbsThreshold <= 0 /\ c.PctThreshold <= 0
        /\ c.ClosingStreak >= 1 /\ c.ClosingCount >= 1
        /\ \E x \in DOMAIN h.hostLatency :
              /\ h.hostLatency[x].recent.values = <<MaxValue>>
              /\ h.hostLatency[x].historical.values = <<MaxValue>>
              /\ InFlight(x)

\* C10: with ClosingStreak >= 1 and ClosingCount >= 1 and attempts to a host
\* made one after another, once a beforeAttempt sees the machine in Closing,
\* exactly min(ClosingStreak, ClosingCount) attempts in a row are marked
\* Request.Close = true, and the afterAttempt of the last of them moves the
\* machine out of Closing: the run of marked attempts never exceeds the
\* minimum, it is still short of it while the machine is Closing, and it
\* equals it once the machine has left Closing.
C10_ClosesExactlyMin ==
    LET c == h.Config.Latency
        lim == Min(c.ClosingStreak, c.ClosingCount)
    IN  (c.ClosingStreak >= 1 /\ c.ClosingCount >= 1)
        => \A x \in DOMAIN h.hostLatency :
              LET sm == h.hostLatency[x]
              IN  /\ marked[x] <= lim
                  /\ (InFlight(x) /\ e.closeSet)
                     => (e.Request.Close /\ machine_State(sm) = Closing)
                  /\ (~InFlight(x) /\ machine_State(sm) = Closing) => marked[x] < lim
                  /\ (~InFlight(x) /\ machine_State(sm) # Closing /\ marked[x] > 0)
                     => marked[x] = lim

\* Two attempts in a row were marked and the second one's afterAttempt left
\* Closing.
C10_Witness ==
    LET c == h.Config.Latency
    IN  /\ c.ClosingStreak = 2 /\ c.ClosingCount = 2
        /\ \E x \in DOMAIN h.hostLatency :
              /\ marked[x] = 2
              /\ ~InFlight(x)
              /\ machine_State(h.hostLatency[x]) = Resting

(***************************************************************************)
(* Properties of one machine shared by goroutines (checked under           *)
(* SpecMachineConc).                                                       *)
(***************************************************************************)
\* C14: Next calls made concurrently on one machine have the effect of the
\* same calls run one at a time in the order in which they took the lock:
\* every returned (next, prev) pair is the pair of that sequential run, and
\* whenever no call is inside Next the state, counters and windows are those
\* of the sequential run (no update is lost); at most one call is inside.
C14_NextLinearizable ==
    /\ mlk[1].w <= 1
    /\ \A p \in Goroutines : g[p].pc = "nextDone" => g[p].res = g[p].want
    /\ mlk[1].w = 0 => heap[1] = lin[1]

\* Both goroutines have returned from Next, one having moved the machine to
\* Closing and the other on to Resting, while the next call waits for nothing.
C14_Witness ==
    /\ g["g1"].pc = "nextDone" /\ g["g1"].res = <<Closing, Watching>>
    /\ g["g2"].pc = "nextDone" /\ g["g2"].res = <<Resting, Closing>>
    /\ heap[1].state = Resting

\* C15: a State() call made while Next calls are under way returns a state
\* the machine held at the entry or after the completion of a Next call,
\* never a state a cascading Next only passes through: while State() holds
\* the read lock no call is inside Next, and what it returns is the state
\* after the calls taken in so far.
C15_StateSeesSettled ==
    \A p \in Goroutines :
        /\ g[p].pc = "st_read"
           => /\ \A q \in Goroutines : ~InNext(q)
              /\ heap[1].state = lin[1].state
        /\ g[p].pc = "stateDone" => g[p].res[1] \in g[p].want

\* With ClosingStreak = 0 a Next call went Watching -> Closing -> Resting and
\* returned, and a State() call returned Resting.
C15_Witness ==
    /\ heap[1].config.ClosingStreak = 0
    /\ \E p, q \in Goroutines :
          /\ g[p].pc = "stateDone" /\ g[p].res = <<Resting>>
          /\ g[q].pc = "nextDone" /\ g[q].res = <<Resting, Watching>>
          /\ heap[1].trail = <<Closing, Resting>>

(***************************************************************************)
(* Properties of the handler shared by goroutines (checked under           *)
(* SpecHandlerConc).                                                       *)
(***************************************************************************)
HostOf(p) == g[p].e.Plan.Host

\* C13: each host name maps to at most one machine; every machine ever made
\* by NewMachine is the one registered for some host (so none was replaced
\* or removed), and the machine a goroutine holds for its host, from
\* getOrCreate or from get, is the registered one, whatever the interleaving.
C13_OneMachinePerHost ==
    /\ Len(heap) = Cardinality(DOMAIN reg)
    /\ \A x \in DOMAIN reg : reg[x] \in 1..Len(heap)
    /\ \A x, y \in DOMAIN reg : x # y => reg[x] # reg[y]
    /\ \A p \in Goroutines :
          g[p].sm # 0 => (HostOf(p) \in DOMAIN reg /\ g[p].sm = reg[HostOf(p)])

\* Two first observations of a host at once: q holds the machine it has just
\* created and not yet used, p is inside getOrCreate for the same host.
C13_Witness ==
    \E p, q \in Goroutines :
        /\ p # q /\ HostOf(p) = HostOf(q)
        /\ g[q].pc = "st_rlock" /\ g[p].pc = "goc_unlock"
        /\ g[p].sm = g[q].sm
        /\ heap[g[q].sm] = NewMachine(h.Config.Latency)
        /\ lin[HostOf(q)] = NewMachine(h.Config.Latency)

\* C16: the machine of each host is, whenever no Next call is inside it, the
\* machine that results from feeding a new machine that host's own samples
\* (value, closed), in the order its Next calls took the lock; the samples
\* of other hosts, however interleaved, have no part in it.
C16_HostsDoNotInterfere ==
    \A x \in DOMAIN reg : mlk[reg[x]].w = 0 => heap[reg[x]] = lin[x]

\* Both hosts are registered, their machines in different states, while the
\* two goroutines drive one host each.
C16_Witness ==
    /\ DOMAIN reg = ConcHosts
    /\ \E x, y \in ConcHosts : heap[reg[x]].state = Closing /\ heap[reg[y]].state = Watching
    /\ g["g1"].pc = "nx_unlock" /\ g["g2"].pc = "nx_lock"
    /\ HostOf("g1") # HostOf("g2")

\* p waits for the registry lock, or for the lock of machine ptr.
WaitsRegistry(p) ==
    \/ g[p].pc = "goc_lock" /\ ~CanLock(rlk)
    \/ g[p].pc = "get_rlock" /\ ~CanRLock(rlk)
WaitsMachine(p, ptr) ==
    /\ g[p].sm = ptr
    /\ \/ g[p].pc = "st_rlock" /\ ~CanRLock(mlk[ptr])
       \/ g[p].pc = "nx_lock" /\ ~CanLock(mlk[ptr])
\* q holds the registry lock, or the lock of machine ptr.
HoldsRegistry(q) == g[q].pc \in {"goc_lookup", "goc_create", "goc_unlock", "get_read"}
HoldsMachine(q, ptr) == g[q].sm = ptr /\ g[q].pc \in {"st_read", "nx_body", "nx_unlock"}

\* C17 as stated: a goroutine handling an attempt for one host never waits
\* for a lock held by a goroutine handling an attempt for another host.
C17_NoCrossHostWaiting ==
    \A p, q \in Goroutines :
        (p # q /\ HostOf(p) # HostOf(q))
        => /\ ~(WaitsRegistry(p) /\ HoldsRegistry(q))
           /\ \A ptr \in 1..Len(heap) : ~(WaitsMachine(p, ptr) /\ HoldsMachine(q, ptr))

\* C17 amended: a goroutine handling an attempt for one host never waits for
\* a machine lock held by a goroutine handling an attempt for another host,
\* and the registry lock is held by writers one at a time.
C17_NoCrossHostMachineWaiting ==
    /\ rlk.w <= 1
    /\ \A p, q \in Goroutines :
          (p # q /\ HostOf(p) # HostOf(q))
          => \A ptr \in 1..Len(heap) : ~(WaitsMachine(p, ptr) /\ HoldsMachine(q, ptr))

\* Two attempts for one host: p waits for the machine while q is inside Next;
\* the other host is registered too.
C17_Witness ==
    /\ DOMAIN reg = ConcHosts
    /\ \E p, q \in Goroutines :
          /\ p # q /\ HostOf(p) = HostOf(q)
          /\ WaitsMachine(p, g[p].sm) /\ HoldsMachine(q, g[p].sm)
          /\ g[q].pc = "nx_body"

(***************************************************************************)
(* Properties of executions whose events arrive in order, one execution    *)
(* after another (checked under SpecHandlerOrder).                         *)
(***************************************************************************)
\* The execution is at an afterAttempt that passes the checks up to the one
\* of the attempt index.
PassesIndexCheck ==
    /\ e.phase = "attempt"
    /\ getExecutionHost(e).ok
    /\ ~e.es.nil
    /\ e.Attempt < e.es.attemptStart

\* C33: within an execution whose events arrive in order, an afterAttempt
\* that passes the attempt-index check follows a beforeAttempt of the same
\* attempt that recorded the start time and went on to get or create the
\* machine: it finds the machine of the host and the request, it does not
\* panic, and it feeds exactly one sample, the registry changing only by the
\* one Next call on the host's machine.  An afterAttempt that fails a check
\* feeds nothing.
C33_AfterAttemptFindsMachine ==
    /\ [](PassesIndexCheck =>
            /\ e.started
            /\ e.es.attemptStart = e.Attempt + 1
            /\ ~e.Request.nil
            /\ ~getHostLatencyStateMachine(h, e.Plan.Host).nil
            /\ \A d \in Durations :
                  afterAttempt(h, e, d).fed /\ afterAttempt(h, e, d).panic = "")
    /\ [][e.phase = "attempt" =>
            IF PassesIndexCheck
            THEN \E d \in Durations :
                    h' = [h EXCEPT !.hostLatency[e.Plan.Host] =
                             machine_Next(@, d, e.Request.Close).m]
            ELSE h' = h]_vars

\* The second attempt of an execution is about to end: the afterAttempt of
\* the first fed a sample that moved the host's machine to Closing, the
\* beforeAttempt of the second marked the request, and the afterAttempt to
\* come passes the attempt-index check.
C33_Witness ==
    /\ PassesIndexCheck
    /\ e.Attempt = 1
    /\ e.Request.Close /\ e.closeSet
    /\ machine_State(h.hostLatency[e.Plan.Host]) = Closing

(***************************************************************************)
(* Properties of goroutines that go on for ever against one host (checked  *)
(* under SpecHandlerFair).                                                 *)
(***************************************************************************)
\* The host's machine is registered and in Closing.
InClosing == heap # <<>> /\ machine_State(heap[1]) = Closing

\* C32: Closing is never permanent.  With ClosingStreak >= 1 and
\* ClosingCount >= 1 and goroutines that keep starting and completing
\* attempts against one host, a machine that is in Closing leaves Closing in
\* the end: a beforeAttempt that reads the state Closing sets the request's
\* Close flag, which its afterAttempt reports as closed = true, and no step
\* that leaves the machine in Closing lowers closedCount.
C32_ClosingIsNotPermanent ==
    /\ InClosing ~> ~InClosing
    /\ [][\A p \in Goroutines :
            (InClosing /\ g[p].pc = "st_read" /\ g'[p].pc = "aa")
                => g'[p].e.Request.Close]_vars
    /\ [][(InClosing /\ InClosing')
            => heap'[1].closedCount >= heap[1].closedCount]_vars

\* The machine is in Closing with a closed connection counted and the limits
\* not yet met, one goroutine is about to report an attempt that began before
\* the machine was Closing (closed = false), the other one that began after
\* (closed = true).
C32_Witness ==
    /\ InClosing
    /\ heap[1].closedCount >= 1
    /\ \E p, q \in Goroutines :
          /\ g[p].pc = "nx_lock" /\ ~g[p].e.Request.Close
          /\ g[q].pc = "nx_lock" /\ g[q].e.Request.Close

(***************************************************************************)
(* Properties of single handler calls (checked under SpecEvents).          *)
(***************************************************************************)
\* The anomalies of an execution x handed to beforeAttempt, and to
\* afterAttempt by a handler whose registry is hl.
AnomalyBefore(x) ==
    x.Plan.nil \/ x.Request.nil \/ x.es.nil \/ x.es.attemptStart # x.Attempt
AnomalyAfter(x, hl) ==
    x.Plan.nil \/ x.es.nil \/ x.Attempt >= x.es.attemptStart \/ x.Plan.Host \notin DOMAIN hl

\* C18: a beforeAttempt given an execution with no plan, no request, no
\* execution state or an attempt index other than the number of recorded
\* starts, and an afterAttempt given one with no plan, no execution state, an
\* attempt index with no recorded start or a host with no registered machine,
\* returns without calling Next and leaves the handler (registry entries,
\* every machine's state, windows and counters) and the execution
\* (Request.Close, recorded starts) as they were.  So does an afterAttempt
\* given an execution with no request, which it does not test for: it stops
\* at e.Request.Close before Next is called.
C18_AnomalyChangesNothing ==
    /\ (call.evt = "BeforeAttempt" /\ AnomalyBefore(call.ein))
       => /\ h = call.hin
          /\ call.eout = call.ein
          /\ ~call.started /\ ~call.closeSet
    /\ (call.evt = "AfterAttempt" /\ AnomalyAfter(call.ein, call.hin.hostLatency))
       => /\ h = call.hin
          /\ call.eout = call.ein
          /\ ~call.fed /\ call.panic = ""
    /\ (call.evt = "AfterAttempt" /\ call.ein.Request.nil)
       => (h = call.hin /\ call.eout = call.ein /\ ~call.fed)

\* afterAttempt found no machine for its host while another host's machine
\* was Closing, its request marked Close.
C18_Witness ==
    /\ call.evt = "AfterAttempt"
    /\ ~call.ein.Plan.nil /\ ~call.ein.es.nil
    /\ call.ein.Attempt < call.ein.es.attemptStart
    /\ call.ein.Plan.Host \notin DOMAIN call.hin.hostLatency
    /\ ~call.ein.Request.nil /\ call.ein.Request.Close
    /\ \E x \in DOMAIN h.hostLatency : machine_State(h.hostLatency[x]) = Closing

\* C19 as stated: a call for an execution whose host name is absent (no
\* plan) or the empty string leaves the handler as it was.
C19_AbsentOrEmptyHostDropped ==
    (call.evt \in {"BeforeAttempt", "AfterAttempt"}
     /\ (call.ein.Plan.nil \/ call.ein.Plan.Host = ""))
    => h = call.hin

\* C19 amended: a call for an execution with no plan leaves the handler and
\* the execution as they were and calls no Next; the empty host name is a
\* host name like any other: a beforeAttempt that passes its checks
\* registers a machine under it, and an afterAttempt that passes its checks
\* feeds that machine.
C19_AbsentHostDropped ==
    /\ (call.evt \in {"BeforeAttempt", "AfterAttempt"} /\ call.ein.Plan.nil)
       => /\ h = call.hin
          /\ call.eout = call.ein
          /\ ~call.started /\ ~call.closeSet /\ ~call.fed /\ call.panic = ""
    /\ (call.evt = "BeforeAttempt" /\ ~AnomalyBefore(call.ein))
       => (call.started /\ call.ein.Plan.Host \in DOMAIN h.hostLatency)
    /\ (call.evt = "AfterAttempt" /\ ~AnomalyAfter(call.ein, call.hin.hostLatency)
        /\ ~call.ein.Request.nil)
       => call.fed

\* afterAttempt was given an execution with no plan, otherwise in order,
\* while the machine of the empty host name was registered and Closing.
C19_Witness ==
    /\ call.evt = "AfterAttempt"
    /\ call.ein.Plan.nil /\ ~call.ein.es.nil /\ ~call.ein.Request.nil
    /\ call.ein.Attempt < call.ein.es.attemptStart
    /\ "" \in DOMAIN h.hostLatency
    /\ machine_State(h.hostLatency[""]) = Closing

\* C20: a beforeAttempt that passes its checks executes r.Close = true
\* exactly when the machine of the host, the registered one or else the one
\* it has just made, reports Closing; otherwise Request.Close stays as the
\* client set it; the call records the start, registers the host if it was
\* not, and leaves every machine (state, windows, counters) as it was.
C20_CloseIffClosing ==
    (call.evt = "BeforeAttempt" /\ ~AnomalyBefore(call.ein))
    => LET host == call.ein.Plan.Host
           old == call.hin.hostLatency
           sm == IF host \in DOMAIN old THEN old[host] ELSE NewMachine(h.Config.Latency)
       IN  /\ call.closeSet <=> machine_State(sm) = Closing
           /\ call.eout.Request.Close
                 = (IF machine_State(sm) = Closing THEN TRUE ELSE call.ein.Request.Close)
           /\ host \notin DOMAIN old => machine_State(sm) = Watching
           /\ call.eout.es.attemptStart = call.ein.es.attemptStart + 1
           /\ DOMAIN h.hostLatency = DOMAIN old \cup {host}
           /\ h.hostLatency[host] = sm
           /\ \A y \in DOMAIN old : h.hostLatency[y] = old[y]

\* The machine was Closing and the request came with Close = false.
C20_Witness ==
    /\ call.evt = "BeforeAttempt" /\ ~AnomalyBefore(call.ein)
    /\ ~call.ein.Request.Close /\ call.eout.Request.Close
    /\ call.ein.Plan.Host \in DOMAIN call.hin.hostLatency
    /\ machine_State(h.hostLatency[call.ein.Plan.Host]) = Closing

(***************************************************************************)
(* Properties of construction and of the window (checked under SpecNew).   *)
(***************************************************************************)
\* C22: NewMachine gives the historical window HistoricalSamples slots and
\* the recent window RecentSamples slots when these are positive, and 10 and
\* 3 slots when they are zero, so a machine's windows have at least one
\* slot; newAvgWindow with capacity 0 yields no window but the panic
\* "reconnx: window size must be positive".
C22_WindowSizes ==
    /\ m.historical.panic = "" /\ m.recent.panic = ""
    /\ Len(m.historical.values) =
          IF m.config.HistoricalSamples > 0 THEN m.config.HistoricalSamples ELSE 10
    /\ Len(m.recent.values) =
          IF m.config.RecentSamples > 0 THEN m.config.RecentSamples ELSE 3
    /\ Len(m.historical.values) >= 1 /\ Len(m.recent.values) >= 1
    /\ w.n = 0 => w.aw.panic = badWindowSizeMsg /\ w.aw.values = <<>>
    /\ w.n >= 1 => w.aw.panic = "" /\ Len(w.aw.values) = w.n

\* A machine configured with zero sizes has taken a sample, and a window
\* of capacity 0 was asked for.
C22_Witness ==
    /\ m.config.HistoricalSamples = 0 /\ m.config.RecentSamples = 0
    /\ Len(m.historical.values) = 10 /\ Len(m.recent.values) = 3
    /\ ret.called
    /\ w.n = 0 /\ w.aw.panic = badWindowSizeMsg

\* C27: for a window of capacity N >= 1 and default d, sum = N*d and the
\* average is d after construction, and after any pushes the sum is the
\* exact sum of the N values in the buffer, the buffer still has N slots
\* and the cursor is in 0..N-1.
C27_SumIsExact ==
    w.aw.panic = "" /\ w.n >= 1 =>
        /\ Len(w.aw.values) = w.n
        /\ w.aw.index \in 0..(w.n - 1)
        /\ w.aw.sum = SeqSum(w.aw.values)
        /\ w.pushed = <<>> =>
              /\ w.aw.sum = w.n * w.def
              /\ FracGeq(Avg(w.aw), Frac(w.def)) /\ FracGeq(Frac(w.def), Avg(w.aw))

\* C28: eviction is first in, first out: the k-th push into a window of
\* capacity N returns the default value when k <= N and the value of the
\* (k-N)-th push otherwise.
C28_EvictionIsFifo ==
    w.aw.panic = "" =>
        /\ Len(w.dropped) = Len(w.pushed)
        /\ \A k \in 1..Len(w.dropped) :
              w.dropped[k] = IF k <= w.n THEN w.def ELSE w.pushed[k - w.n]

\* Four pushes into a window of two slots: two defaults came back, then
\* the first two values pushed.
C28_Witness ==
    /\ w.n = 2 /\ w.def = 87
    /\ w.pushed = <<1, 3, 3, 1>>
    /\ w.dropped = <<87, 87, 1, 3>>

\* C30: a new machine with AbsThreshold > 0, ClosingStreak >= 1 and
\* ClosingCount >= 1 is in Closing after its first Next call whenever that
\* sample is >= AbsThreshold, whatever RecentSamples is.
C30_FirstSlowSampleCloses ==
    ( /\ ret.called /\ ret.first
      /\ m.config.AbsThreshold > 0
      /\ m.config.ClosingStreak >= 1 /\ m.config.ClosingCount >= 1
      /\ ret.value >= m.config.AbsThreshold )
    => ret.next = Closing /\ m.state = Closing

\* The first Next call has been made on a machine with no absolute
\* threshold, a percent threshold and closing limits of at least 1, with a
\* sample of at least 0.
FirstWithPercentOnly ==
    /\ ret.called /\ ret.first
    /\ m.config.AbsThreshold <= 0 /\ m.config.PctThreshold > 0
    /\ m.config.ClosingStreak >= 1 /\ m.config.ClosingCount >= 1
    /\ ret.value >= 0

\* C31 as stated: such a call leaves the machine in Closing, the historical
\* window being seeded with zeros and its average being 0.
C31_ZeroSeededFirstSampleCloses ==
    FirstWithPercentOnly =>
        /\ ret.next = Closing /\ m.state = Closing
        /\ \A i \in 1..Len(m.historical.values) : m.historical.values[i] = 0
        /\ Avg(m.historical).num = 0

\* C31: such a call leaves the machine in Closing, the historical window
\* being seeded with AbsThreshold (0 or negative): its average is 0 or
\* negative, and the recent average is at least that average times the
\* percent factor.
C31_SeededFirstSampleCloses ==
    FirstWithPercentOnly =>
        /\ ret.next = Closing /\ m.state = Closing
        /\ \A i \in 1..Len(m.historical.values) :
              m.historical.values[i] = m.config.AbsThreshold
        /\ FracGeq(Frac(0), Avg(m.historical))
        /\ FracGeq(Avg(m.recent),
                   FMul(Avg(m.historical), PctFactor(m.config.PctThreshold)))

\* A machine with AbsThreshold -1 and default window sizes went to Closing
\* on a first sample of 0.
C31_Witness ==
    /\ FirstWithPercentOnly
    /\ m.config.AbsThreshold = -1 /\ m.config.RecentSamples = 0
    /\ ret.value = 0 /\ ret.next = Closing
    /\ Avg(m.historical).num < 0

(***************************************************************************)
(* Properties of the machine and its record (checked under SpecTrace).     *)
(***************************************************************************)
\* C21: Next never fails.  In every reachable state the state field is one
\* of Watching, Closing, Resting, and a Next call with any sample (negative
\* ones included) and any closed flag completes without the "unknown state"
\* panic and returns two of the three states.
C21_NextNeverFails ==
    /\ m.state \in States
    /\ \A value \in TraceValues, closed \in BOOLEAN :
          LET r == machine_Next(m, value, closed)
          IN  r.panic = "" /\ r.next \in States /\ r.prev \in States
    /\ ret.called => ret.next \in States /\ ret.prev \in States

\* A negative sample was taken by a machine resting after a stay in Closing.
C21_Witness ==
    /\ ret.called /\ ret.value < 0 /\ ret.prev = Resting
    /\ machine_Next(m, -1, TRUE).panic = ""

\* The last Next call assigned Closing to the state, coming from another state.
EnteredClosing ==
    /\ ret.called /\ ret.prev # Closing
    /\ \E i \in 1..Len(m.trail) : m.trail[i] = Closing

\* C23: a call that moves the machine into Closing (from Watching, or from
\* Resting by way of Watching) runs the Closing exit logic in the same call
\* with closed = false, whatever flag the caller passed: both closed
\* counters are 0 after it; it returns Closing when ClosingStreak >= 1 and
\* ClosingCount >= 1, and otherwise it returns Resting if RestingCount > 0
\* and Watching if RestingCount = 0.
C23_CascadeIntoClosing ==
    EnteredClosing =>
        /\ m.closedStreak = 0 /\ m.closedCount = 0
        /\ m.state = ret.next
        /\ (m.config.ClosingStreak >= 1 /\ m.config.ClosingCount >= 1)
              => ret.next = Closing
        /\ (m.config.ClosingStreak = 0 \/ m.config.ClosingCount = 0)
              => ret.next = (IF m.config.RestingCount > 0 THEN Resting ELSE Watching)

\* A call that passed closed = true to a resting machine went through
\* Watching and Closing and ended in Resting again: a limit is 0.
C23_Witness ==
    /\ EnteredClosing /\ ret.closed /\ ret.prev = Resting
    /\ m.trail = <<Watching, Closing, Resting>>
    /\ m.config.ClosingCount = 0 /\ m.config.ClosingStreak > 0

\* C25: between Next calls closedStreak and closedCount are 0 unless the
\* state is Closing, and restCount is 0 unless the state is Resting.
C25_CountersBelongToState ==
    /\ m.state # Closing => m.closedStreak = 0 /\ m.closedCount = 0
    /\ m.state # Resting => m.restCount = 0

\* The last call found the machine in Closing with a closed connection
\* counted, and took it out of Closing.
C25_Witness ==
    /\ ret.called /\ ret.prev = Closing /\ ret.entry.closedCount > 0
    /\ m.state = Resting /\ m.closedCount = 0 /\ m.closedStreak = 0

\* C29: between Next calls, in Closing closedStreak < ClosingStreak,
\* closedCount < ClosingCount and closedStreak <= closedCount; in Resting
\* restCount < RestingCount.
C29_CountersBelowLimits ==
    /\ m.state = Closing =>
          /\ m.closedStreak < m.config.ClosingStreak
          /\ m.closedCount < m.config.ClosingCount
          /\ m.closedStreak <= m.closedCount
    /\ m.state = Resting => m.restCount < m.config.RestingCount

\* In Closing with a closed connection counted and the streak broken.
C29_Witness ==
    /\ m.state = Closing /\ m.closedCount = 1 /\ m.closedStreak = 0
    /\ ret.called /\ ret.prev = Closing /\ ~ret.closed

\* The number of TRUE flags in a sequence, and the length of its run of
\* TRUE flags at the end.
RECURSIVE CountTrue(_)
CountTrue(f) ==
    IF f = <<>> THEN 0
    ELSE CountTrue(SubSeq(f, 1, Len(f) - 1)) + (IF f[Len(f)] THEN 1 ELSE 0)
RECURSIVE TrailingRun(_)
TrailingRun(f) ==
    IF f = <<>> \/ ~f[Len(f)] THEN 0
    ELSE TrailingRun(SubSeq(f, 1, Len(f) - 1)) + 1

\* The closed counters as closing(closed) updates them, before its exit test.
ClosingUpdate(c, closed) ==
    IF closed
    THEN [closedStreak |-> c.closedStreak + 1, closedCount |-> c.closedCount + 1]
    ELSE [closedStreak |-> 0, closedCount |-> c.closedCount]

\* C24: in a Next call that finds the machine in Closing, closed = true
\* adds one to closedCount and to closedStreak, and closed = false sets
\* closedStreak to 0 and leaves closedCount alone; the call leaves Closing
\* exactly when the counters so updated meet a limit, and keeps them
\* otherwise.  So while the machine stays in Closing, closedCount is the
\* number of closed = true calls since it entered and closedStreak is the
\* length of the run of closed = true calls at the end.
C24_ClosedCounters ==
    /\ (ret.called /\ ret.prev = Closing) =>
          LET u == ClosingUpdate(ret.entry, ret.closed)
          IN  IF m.state = Closing
              THEN /\ m.closedStreak = u.closedStreak
                   /\ m.closedCount = u.closedCount
              ELSE \/ u.closedStreak >= m.config.ClosingStreak
                   \/ u.closedCount >= m.config.ClosingCount
    /\ m.state = Closing =>
          /\ m.closedCount = CountTrue(tr.flags)
          /\ m.closedStreak = TrailingRun(tr.flags)

\* In Closing after closed, not closed, closed: two counted, a streak of one.
C24_Witness ==
    /\ m.state = Closing /\ tr.flags = <<TRUE, FALSE, TRUE>>
    /\ m.closedCount = 2 /\ m.closedStreak = 1

\* The values of a window from the oldest to the newest: the cursor is on
\* the oldest.
Aged(aw) ==
    [i \in 1..Len(aw.values) |-> aw.values[((aw.index + i - 1) % Len(aw.values)) + 1]]

\* What the windows have been given, oldest first: as many seeds as they
\* have slots, then the recorded samples, each clamped to a positive
\* AbsThreshold.
Stream ==
    LET c == m.config
        k == Len(m.historical.values) + Len(m.recent.values)
    IN  [i \in 1..k |-> c.AbsThreshold] \o
        [i \in 1..Len(tr.last) |->
            IF c.AbsThreshold > 0 /\ tr.last[i] > c.AbsThreshold
            THEN c.AbsThreshold ELSE tr.last[i]]

\* C26: every Next call, whatever state it finds, pushes the clamped sample
\* into the recent window and the value the recent window gives up into the
\* historical window.  So the recent window holds the last RecentSamples
\* clamped samples and the historical window the HistoricalSamples clamped
\* samples just before those, with seeds where the samples run out.
C26_WindowsHoldLastSamples ==
    LET rs == Len(m.recent.values)
        hs == Len(m.historical.values)
        n == Len(Stream)
    IN  /\ Aged(m.recent) = SubSeq(Stream, n - rs + 1, n)
        /\ Aged(m.historical) = SubSeq(Stream, n - rs - hs + 1, n - rs)

\* Four samples went into windows of two slots each, the last one into a
\* resting machine and clamped.
C26_Witness ==
    /\ ret.called /\ ret.prev = Resting
    /\ Len(m.recent.values) = 2 /\ Len(m.historical.values) = 2
    /\ tr.n = 4 /\ m.config.AbsThreshold = 2
    /\ tr.last[4] = MaxValue /\ tr.last[3] = -1 /\ tr.last[2] = MaxValue /\ tr.last[1] = 1
    /\ Aged(m.recent) = <<-1, 2>> /\ Aged(m.historical) = <<1, 2>>

====
